---------------------------- MODULE Spec2Model ----------------------------
(***************************************************************************)
(* Bug-injection subsystem of stresst (lib/ai-stress.ts in its versions):  *)
(* the entry point introduceAIStress, the deterministic fallback engine    *)
(* fallbackStress with its mutation rules, and generateFallbackSymptoms.   *)
(*                                                                         *)
(* A source text is modelled as the sequence of its lexemes.  The text a   *)
(* lexeme sequence stands for is the lexemes joined by one space, except   *)
(* that a dot-word (".map"), an optional-chaining word ("?.name"), a       *)
(* closer (")", "}", "]", ",", ";"), and "(" or "[" after a non-keyword    *)
(* word are attached to the lexeme before them, and the lexeme NL is a     *)
(* line break.  Every regular expression of the source is translated to   *)
(* the lexeme pattern it recognises on such texts.                         *)
(***************************************************************************)
EXTENDS Integers, Sequences, FiniteSets, TLC

\* ------------------------------------------------------------ bounds
\* Math.random() is modelled as k/RandRes for k in 0..RandRes-1.
RandRes == 2
\* Explicit bug counts range over -1..MaxTarget (or are absent).
MaxTarget == 2

\* how many times other requests run while one request is suspended
MaxOthers == 1

\* explicit bug counts of the requests that exercise selectRandomBugTypes:
\* one more than the 45 entries of BUG_TYPES
MaxSelectCount == 46

\* ------------------------------------------------------------ helpers
UNDEF == "undefined"

\* an optional number: <<>> when undefined, <<n>> when n is given
NONE == <<>>

Given(n) == <<n>>

Min(S) == CHOOSE x \in S : \A y \in S : x <= y

MinOf(a, b) == IF a <= b THEN a ELSE b

Range(s) == {s[i] : i \in 1..Len(s)}

NoDuplicates(s) == \A i, j \in 1..Len(s) : i # j => s[i] # s[j]

\* ------------------------------------------------------------ randomness
\* The randomness source: the k-th call of Math.random() of a request
\* returns Random(rnd, k)/RandRes; rnd is fixed per request, so two runs
\* "with the same random draws" are two runs with the same rnd.
RandStreams == [seed : 0..(RandRes - 1), step : 0..(RandRes - 1)]

Random(rnd, k) == (rnd.seed + k * rnd.step) % RandRes

\* Math.floor(Math.random() * n), for the k-th draw
RandomInt(rnd, k, n) == (Random(rnd, k) * n) \div RandRes

\* ------------------------------------------------------------ STRESS_CONFIGS
StressLevels == {"low", "medium", "high"}

STRESS_CONFIGS ==
  [low    |-> [bugCountMin |-> 1, bugCountMax |-> 2],
   medium |-> [bugCountMin |-> 2, bugCountMax |-> 3],
   high   |-> [bugCountMin |-> 2, bugCountMax |-> 3]]

\* targetBugCount !== undefined ? targetBugCount
\*   : Math.floor(Math.random() * (max - min + 1)) + min      (draw k)
BugCountOffByOne(targetBugCount, stressLevel, rnd, k) ==
  IF targetBugCount # NONE THEN targetBugCount[1]
  ELSE RandomInt(rnd, k, STRESS_CONFIGS[stressLevel].bugCountMax
                           - STRESS_CONFIGS[stressLevel].bugCountMin + 1)
       + STRESS_CONFIGS[stressLevel].bugCountMax

BugCount(targetBugCount, stressLevel, rnd, k) ==
  IF targetBugCount # NONE THEN targetBugCount[1]
  ELSE RandomInt(rnd, k, STRESS_CONFIGS[stressLevel].bugCountMax
                           - STRESS_CONFIGS[stressLevel].bugCountMin + 1)
       + STRESS_CONFIGS[stressLevel].bugCountMin

\* number of Math.random() calls BugCount makes
BugCountDraws(targetBugCount) == IF targetBugCount # NONE THEN 0 ELSE 1

\* ------------------------------------------------------------ shuffleArray
\* for (i = length - 1; i > 0; i--) { j = floor(random() * (i + 1)); swap }
\* (1-based here: position i runs from Len(array) down to 2), first draw k.
SwapLosesOne(a, i, j) == [a EXCEPT ![i] = a[j]]

Swap(a, i, j) == [a EXCEPT ![i] = a[j], ![j] = a[i]]

RECURSIVE ShuffleFrom(_, _, _, _)
ShuffleFrom(a, i, rnd, k) ==
  IF i < 2 THEN a
  ELSE LET j == RandomInt(rnd, k, i) + 1
       IN  CHOOSE r \in {ShuffleFrom(b, i - 1, rnd, k + 1) : b \in {Swap(a, i, j)}} : TRUE

shuffleArray(array, rnd, k) == ShuffleFrom(array, Len(array), rnd, k)

ShuffleDraws(array) == IF Len(array) < 2 THEN 0 ELSE Len(array) - 1

\* ------------------------------------------------------------ generateFallbackSymptoms
symptomTemplates ==
  << "main list: last 2 items missing",
     "search bar: first letter cut off",
     "cards: every item shows the same ID",
     "profile: all names undefined",
     "page load: crash with white screen",
     "dashboard: all totals show $0.00",
     "item grid: half the items blank",
     "list: display logic inverted",
     "counter: count is 2 less than actual",
     "text fields: last characters cut off" >>

\* numSymptoms = Math.min(changes.length, 3); shuffle the bank; slice(0, numSymptoms)
generateFallbackSymptomsOneLess(changes, rnd, k) ==
  SubSeq(shuffleArray(symptomTemplates, rnd, k), 1, MinOf(Len(changes) - 1, 3))

generateFallbackSymptomsUncapped(changes, rnd, k) ==
  SubSeq(shuffleArray(symptomTemplates, rnd, k), 1, Len(changes))

generateFallbackSymptoms(changes, rnd, k) ==
  SubSeq(shuffleArray(symptomTemplates, rnd, k), 1, MinOf(Len(changes), 3))

SymptomDraws == ShuffleDraws(symptomTemplates)

\* ------------------------------------------------------------ lexemes
NL == "\n"

\* \w+ lexemes
Words ==
  {"return", "const", "function", "for", "await", "delete", "items", "item",
   "user", "total", "load", "show", "i", "b", "_", "null", "true", "false",
   "undefined", "0", "1", "2", "3"}

Keywords == {"return", "const", "function", "for", "await", "delete"}

\* "." followed by a word, and "?." followed by a word
DotWords == {".map", ".forEach", ".filter", ".slice", ".name", ".nam", ".id",
             ".length", ".data"}

OptDotWords == {"?.name", "?.nam"}

\* /?\./g -> "."
Unchained(t) == IF t = "?.name" THEN ".name" ELSE IF t = "?.nam" THEN ".nam" ELSE t

\* object keys ("name: ..."), string literals, lexemes that start with "<"

Strings == {"'hi'", "\"\""}

LtLexemes == {"<", "<="}

\* lexemes in which each keyword alternation of the source finds a match
\* /name|title|label|text|value|query|search|input/i
FirstCharKeyed == {".name", "?.name", "name:"}

\* /name|title|label|text|description/i
LastCharsKeyed == {".name", "?.name", "name:"}

\* /price|total|amount|cost|sum/i
PriceKeyed == {"total"}

\* /\.id|\.key|\.uuid/i
IdKeyed == {".id"}

\* /\.name|\.data|\.items/
NameDataKeyed == {".name", "?.name", ".data"}

\* /\.(name|title|email|username)\b/
TypoProps == {".name", "?.name"}

\* prop.slice(0, -1) after the dot: name -> nam
Typo(t) == IF t = ".name" THEN ".nam" ELSE IF t = "?.name" THEN "?.nam" ELSE t

\* (name|title|value|data): as an object key
NullableKeys == {"name:"}

\* ------------------------------------------------------------ lexeme patterns
Tok(c, i) == IF i \in 1..Len(c) THEN c[i] ELSE ""

\* index of the next lexeme after i that is not white space (\s*), or Len(c)+1
RECURSIVE Nx(_, _)
Nx(c, i) ==
  IF i + 1 > Len(c) THEN Len(c) + 1
  ELSE IF c[i + 1] = NL THEN Nx(c, i + 1) ELSE i + 1

\* c with the lexemes i..j replaced by r
Splice(c, i, j, r) == SubSeq(c, 1, i - 1) \o r \o SubSeq(c, j + 1, Len(c))

Has(c, S) == \E i \in 1..Len(c) : c[i] \in S

\* index of the first lexeme after i that is in S, or Len(c)+1
RECURSIVE Upto(_, _, _)
Upto(c, i, S) ==
  IF i + 1 > Len(c) THEN Len(c) + 1
  ELSE IF c[i + 1] \in S THEN i + 1 ELSE Upto(c, i + 1, S)

\* /\.\w+\s*[,\)\}]/
PropBeforeCloser(c) ==
  \E i \in 1..Len(c) : /\ c[i] \in DotWords \cup OptDotWords
                       /\ Tok(c, Nx(c, i)) \in {",", ")", "}"}

\* /\.map\s*\(/ : start indices
MapCalls(c) == {i \in 1..Len(c) : c[i] = ".map" /\ Tok(c, Nx(c, i)) = "("}

\* /\.filter\s*\(/
FilterCalls(c) == {i \in 1..Len(c) : c[i] = ".filter" /\ Tok(c, Nx(c, i)) = "("}

\* /return\s+\w+/ : start indices
ReturnWords(c) == {i \in 1..Len(c) : c[i] = "return" /\ Tok(c, Nx(c, i)) \in Words}

\* /return\s+\w+\.map\s*\(/ : start indices
ReturnMaps(c) ==
  {i \in ReturnWords(c) : /\ Tok(c, Nx(c, i) + 1) = ".map"
                          /\ Tok(c, Nx(c, Nx(c, i) + 1)) = "("}

\* /(\w+)\.map\s*\(/ : indices of the word
WordMaps(c) == {i \in 1..Len(c) : c[i] \in Words /\ (i + 1) \in MapCalls(c)}

\* /\.map\s*\(\s*\(\s*(\w+)/ : start indices
MapArrows(c) ==
  {i \in MapCalls(c) : /\ Tok(c, Nx(c, Nx(c, i))) = "("
                       /\ Tok(c, Nx(c, Nx(c, Nx(c, i)))) \in Words}

\* /return.*\.map/ : "." does not match a line break
ReturnThenMapOnLine(c) ==
  \E i, j \in 1..Len(c) : /\ i < j
                          /\ c[i] = "return"
                          /\ c[j] = ".map"
                          /\ \A k \in i..j : c[k] # NL

\* /const\s+(\w+)\s*=\s*\{/ : start indices
ObjOpens(c) ==
  {i \in 1..Len(c) : /\ c[i] = "const"
                     /\ Tok(c, Nx(c, i)) \in Words
                     /\ Tok(c, Nx(c, Nx(c, i))) = "="
                     /\ Tok(c, Nx(c, Nx(c, Nx(c, i)))) = "{"}

\* index of the "{" of the object opened at i
BraceOf(c, i) == Nx(c, Nx(c, Nx(c, i)))

\* /\.length\b/ , /\.length\s*[-+]/
Lengths(c) == {i \in 1..Len(c) : c[i] = ".length"}

LengthArith(c) ==
  \E i \in Lengths(c) : Tok(c, Nx(c, i)) \in {"-", "++"}

\* /\[\s*0\s*\]/ : start indices
ZeroIndexes(c) ==
  {i \in 1..Len(c) : /\ c[i] = "["
                     /\ Tok(c, Nx(c, i)) = "0"
                     /\ Tok(c, Nx(c, Nx(c, i))) = "]"}

\* /await\s+\w+\(/ : start indices ("(" attached to the word)
AwaitCalls(c) ==
  {i \in 1..Len(c) : /\ c[i] = "await"
                     /\ Tok(c, Nx(c, i)) \in Words \ Keywords
                     /\ Tok(c, Nx(c, i) + 1) = "("}

\* /\?\s*</ and /&&\s*</
TernaryLt(c) == \E i \in 1..Len(c) : c[i] = "?" /\ Tok(c, Nx(c, i)) \in LtLexemes

AndLt(c) == \E i \in 1..Len(c) : c[i] = "&&" /\ Tok(c, Nx(c, i)) \in LtLexemes

\* c.includes("? <") , c.includes("&& <") : exactly one space between
IncludesTernaryLt(c) == \E i \in 1..Len(c) : c[i] = "?" /\ Tok(c, i + 1) \in LtLexemes

IncludesAndLt(c) == \E i \in 1..Len(c) : c[i] = "&&" /\ Tok(c, i + 1) \in LtLexemes

\* /(\w+)\s*\?\s*</ , /(\w+)\s*&&\s*</ : indices of the word
WordOpLt(c, op) ==
  {i \in 1..Len(c) : /\ c[i] \in Words
                     /\ Tok(c, Nx(c, i)) = op
                     /\ Tok(c, Nx(c, Nx(c, i))) \in LtLexemes}

\* /function\s+\w+/ : start indices
FunctionHeads(c) ==
  {i \in 1..Len(c) : c[i] = "function" /\ Tok(c, Nx(c, i)) \in Words}

\* /const\s+\w+\s*=\s*\([^)]*\)\s*=>/ : start indices
ArrowHeads(c) ==
  {i \in 1..Len(c) :
     /\ c[i] = "const"
     /\ Tok(c, Nx(c, i)) \in Words
     /\ Tok(c, Nx(c, Nx(c, i))) = "="
     /\ Tok(c, Nx(c, Nx(c, Nx(c, i)))) = "("
     /\ Tok(c, Upto(c, Nx(c, Nx(c, Nx(c, i))), {")"})) = ")"
     /\ Tok(c, Nx(c, Upto(c, Nx(c, Nx(c, Nx(c, i))), {")"}))) = "=>"}

\* index of the "=>" of the arrow function that starts at i
ArrowOf(c, i) == Nx(c, Upto(c, Nx(c, Nx(c, Nx(c, i))), {")"}))

\* /for\s*\([^;]+;\s*\w+\s*<\s*\w+/ : start indices
ForLoops(c) ==
  {i \in 1..Len(c) :
     /\ c[i] = "for"
     /\ Tok(c, Nx(c, i)) = "("
     /\ Upto(c, Nx(c, i), {";"}) > Nx(c, i) + 1
     /\ Tok(c, Upto(c, Nx(c, i), {";"})) = ";"
     /\ Tok(c, Nx(c, Upto(c, Nx(c, i), {";"}))) \in Words
     /\ Tok(c, Nx(c, Nx(c, Upto(c, Nx(c, i), {";"})))) = "<"
     /\ Tok(c, Nx(c, Nx(c, Nx(c, Upto(c, Nx(c, i), {";"}))))) \in Words}

\* index of the last lexeme of the for-loop match that starts at i
ForEnd(c, i) == Nx(c, Nx(c, Nx(c, Upto(c, Nx(c, i), {";"}))))

\* ------------------------------------------------------------ jsMutations
\* match[1] + ".slice(1)" / ".slice(0, -3)" appended to the first keyed property
FirstKeyedProp(c, keyed) ==
  {i \in 1..Len(c) : c[i] \in (DotWords \cup OptDotWords) \cap keyed}

AppendAfterFirst(c, S, r) ==
  IF S = {} THEN c ELSE Splice(c, Min(S) + 1, Min(S), r)

\* c.replace(/\.map\s*\(/, r): the first map call replaced by r
ReplaceFirstMap(c, r) ==
  IF MapCalls(c) = {} THEN c
  ELSE Splice(c, Min(MapCalls(c)), Nx(c, Min(MapCalls(c))), r)

\* every `${itemVar}.id` replaced by `${arrayName}[0].id` (flag g)
RECURSIVE ReplaceItemId(_, _, _)
ReplaceItemId(c, itemVar, arrayName) ==
  IF Len(c) = 0 THEN c
  ELSE IF Len(c) >= 2 /\ c[1] = itemVar /\ c[2] = ".id"
       THEN <<arrayName, "[", "0", "]", ".id">>
            \o ReplaceItemId(SubSeq(c, 3, Len(c)), itemVar, arrayName)
       ELSE <<c[1]>> \o ReplaceItemId(Tail(c), itemVar, arrayName)

\* the keys (name|title|value|data): of the object opened at i that have a
\* value, up to the first "}" ([^}]* does not cross it)
NullableAt(c, i) ==
  {k \in (BraceOf(c, i) + 1)..(Upto(c, BraceOf(c, i), {"}"}) - 1) :
     /\ c[k] \in NullableKeys
     /\ Upto(c, k, {",", "}"}) > k + 1}

\* "!$1 ? <" / "!$1 && <"
InvertFirst(c, op) ==
  IF WordOpLt(c, op) = {} THEN c
  ELSE LET i == Min(WordOpLt(c, op))
       IN  Splice(c, i, Nx(c, Nx(c, i)), <<"!", c[i], op, c[Nx(c, Nx(c, i))]>>)

\* ------------------------------------------------------------ genericMutations
\* /return\s+["'`]/
ReturnStrings(c) ==
  {i \in 1..Len(c) : c[i] = "return" /\ Tok(c, Nx(c, i)) \in Strings}

\* c.replace("true", "false"): the first occurrence only
ReplaceFirstWord(c, from, to) ==
  IF ~Has(c, {from}) THEN c
  ELSE [c EXCEPT ![Min({k \in 1..Len(c) : c[k] = from})] = to]

\* ------------------------------------------------------------ rule tables
jsMutations ==
  << "sliceOffFirstChar", "sliceOffLastChars", "hideLastItems", "filterOutHalfItems",
     "returnEmptyArray", "useFirstIdForAll", "wrongPropertyName", "setPropertyToNull",
     "removeOptionalChaining", "deletePropertyBeforeUse", "wrongLengthCount",
     "returnZeroPrice", "mapToForEach", "invertConditionalDisplay",
     "returnUndefinedFromFunction", "offByOneLessThan", "zeroToOne", "removeAwait" >>

genericMutations ==
  << "genericReturnNull", "genericReturnEmptyString", "genericTrueToFalse",
     "genericFalseToTrue" >>

canApply(m, c) ==
  CASE m = "sliceOffFirstChar" -> PropBeforeCloser(c) /\ Has(c, FirstCharKeyed)
    [] m = "sliceOffLastChars" -> PropBeforeCloser(c) /\ Has(c, LastCharsKeyed)
    [] m = "hideLastItems" -> MapCalls(c) # {}
    [] m = "filterOutHalfItems" -> MapCalls(c) # {} /\ FilterCalls(c) = {}
    [] m = "returnEmptyArray" -> ReturnMaps(c) # {}
    [] m = "useFirstIdForAll" -> MapArrows(c) # {} /\ Has(c, IdKeyed)
    [] m = "wrongPropertyName" -> Has(c, TypoProps)
    [] m = "setPropertyToNull" -> ObjOpens(c) # {}
    [] m = "removeOptionalChaining" -> Has(c, OptDotWords)
    [] m = "deletePropertyBeforeUse" -> ObjOpens(c) # {} /\ Has(c, NameDataKeyed)
    [] m = "wrongLengthCount" -> Lengths(c) # {} /\ ~LengthArith(c)
    [] m = "returnZeroPrice" -> Has(c, PriceKeyed) /\ ReturnWords(c) # {}
    [] m = "mapToForEach" -> MapCalls(c) # {} /\ ReturnThenMapOnLine(c)
    [] m = "invertConditionalDisplay" -> TernaryLt(c) \/ AndLt(c)
    [] m = "returnUndefinedFromFunction" -> FunctionHeads(c) # {} \/ ArrowHeads(c) # {}
    [] m = "offByOneLessThan" -> ForLoops(c) # {}
    [] m = "zeroToOne" -> ZeroIndexes(c) # {}
    [] m = "removeAwait" -> AwaitCalls(c) # {}
    [] m = "genericReturnNull" -> ReturnWords(c) # {}
    [] m = "genericReturnEmptyString" -> ReturnStrings(c) # {}
    [] m = "genericTrueToFalse" -> Has(c, {"true"})
    [] m = "genericFalseToTrue" -> Has(c, {"false"})

apply(m, c) ==
  CASE m = "sliceOffFirstChar" ->
         ( AppendAfterFirst(c, FirstKeyedProp(c, FirstCharKeyed), <<".slice", "(", "1", ")">>) )
    [] m = "sliceOffLastChars" ->
         ( AppendAfterFirst(c, FirstKeyedProp(c, LastCharsKeyed),
                            <<".slice", "(", "0", ",", "-", "3", ")">>) )
    [] m = "hideLastItems" ->
         ( ReplaceFirstMap(c, <<".slice", "(", "0", ",", "-", "2", ")", ".map", "(">>) )
    [] m = "filterOutHalfItems" ->
         ( ReplaceFirstMap(c, <<".filter", "(", "(", "_", ",", "i", ")", "=>", "i", "%",
                                "2", "===", "0", ")", ".map", "(">>) )
    [] m = "returnEmptyArray" ->
         \* "return []; $1.map("
         ( IF ReturnMaps(c) = {} THEN c
           ELSE LET i == Min(ReturnMaps(c))
                    w == Nx(c, i)
                IN  Splice(c, i, Nx(c, w + 1),
                           <<"return", "[", "]", ";", c[w], ".map", "(">>) )
    [] m = "useFirstIdForAll" ->
         ( IF MapArrows(c) = {} \/ WordMaps(c) = {} THEN c
           ELSE LET a == Min(MapArrows(c))
                    itemVar == c[Nx(c, Nx(c, Nx(c, a)))]
                    arrayName == c[Min(WordMaps(c))]
                IN  ReplaceItemId(c, itemVar, arrayName) )
    [] m = "wrongPropertyName" ->
         ( IF ~Has(c, TypoProps) THEN c
           ELSE LET i == Min({k \in 1..Len(c) : c[k] \in TypoProps})
                IN  [c EXCEPT ![i] = Typo(c[i])] )
    [] m = "setPropertyToNull" ->
         \* [^}]* is greedy: the last such key of the first object that has one;
         \* its value, up to the next "," or "}", becomes null
         ( LET objs == {i \in ObjOpens(c) : NullableAt(c, i) # {}}
           IN  IF objs = {} THEN c
               ELSE LET keys == NullableAt(c, Min(objs))
                        k == CHOOSE x \in keys : \A y \in keys : y <= x
                    IN  Splice(c, k + 1, Upto(c, k, {",", "}"}) - 1, <<"null">>) )
    [] m = "removeOptionalChaining" -> [i \in 1..Len(c) |-> Unchained(c[i])]
    [] m = "deletePropertyBeforeUse" ->
         \* (const\s+objName\s*=\s*\{[^}]+\};?) followed by "\ndelete objName.data;"
         ( IF ObjOpens(c) = {} THEN c
           ELSE LET objName == c[Nx(c, Min(ObjOpens(c)))]
                    closed == {i \in ObjOpens(c) :
                                 /\ c[Nx(c, i)] = objName
                                 /\ Upto(c, BraceOf(c, i), {"}"}) > BraceOf(c, i) + 1
                                 /\ Tok(c, Upto(c, BraceOf(c, i), {"}"})) = "}"}
                IN  IF closed = {} THEN c
                    ELSE LET e == Upto(c, BraceOf(c, Min(closed)), {"}"})
                             last == IF Tok(c, e + 1) = ";" THEN e + 1 ELSE e
                         IN  Splice(c, last + 1, last,
                                    <<NL, "delete", objName, ".data", ";">>) )
    [] m = "wrongLengthCount" ->
         ( IF Lengths(c) = {} THEN c
           ELSE Splice(c, Min(Lengths(c)) + 1, Min(Lengths(c)), <<"-", "2">>) )
    [] m = "returnZeroPrice" ->
         \* /return\s+(\w*(price|total|amount|cost|sum)\w*)/i replaced by "return 0"
         ( LET priced == {i \in ReturnWords(c) : c[Nx(c, i)] \in PriceKeyed}
           IN  IF priced = {} THEN c
               ELSE Splice(c, Min(priced), Nx(c, Min(priced)), <<"return", "0">>) )
    [] m = "mapToForEach" -> ReplaceFirstMap(c, <<".forEach", "(">>)
    [] m = "invertConditionalDisplay" ->
         ( IF IncludesTernaryLt(c) THEN InvertFirst(c, "?")
           ELSE IF IncludesAndLt(c) THEN InvertFirst(c, "&&")
           ELSE c )
    [] m = "returnUndefinedFromFunction" ->
         \* function\s+\w+[^{]*\{  |  const\s+\w+\s*=\s*\([^)]*\)\s*=>\s*\{ : the
         \* leftmost match, "\n  return undefined;" added after its "{"
         ( LET fn == {i \in FunctionHeads(c) : Tok(c, Upto(c, Nx(c, i), {"{"})) = "{"}
               ar == {i \in ArrowHeads(c) : Tok(c, Nx(c, ArrowOf(c, i))) = "{"}
           IN  IF fn \cup ar = {} THEN c
               ELSE LET i == Min(fn \cup ar)
                        b == IF i \in fn THEN Upto(c, Nx(c, i), {"{"})
                             ELSE Nx(c, ArrowOf(c, i))
                    IN  Splice(c, b + 1, b, <<NL, "return", "undefined", ";">>) )
    [] m = "offByOneLessThan" ->
         \* match[0].replace(" < ", " <= "): the first "<" inside the match
         ( IF ForLoops(c) = {} THEN c
           ELSE LET i == Min(ForLoops(c))
                    lt == Min({k \in i..ForEnd(c, i) : c[k] = "<"})
                IN  [c EXCEPT ![lt] = "<="] )
    [] m = "zeroToOne" ->
         ( IF ZeroIndexes(c) = {} THEN c
           ELSE LET i == Min(ZeroIndexes(c))
                IN  Splice(c, i, Nx(c, Nx(c, i)), <<"[", "1", "]">>) )
    [] m = "removeAwait" ->
         \* match[0].replace("await ", ""): nothing is removed when a line break,
         \* not a space, follows the await
         ( IF AwaitCalls(c) = {} THEN c
           ELSE LET i == Min(AwaitCalls(c))
                IN  IF Nx(c, i) = i + 1 THEN Splice(c, i, i, <<>>) ELSE c )
    [] m = "genericReturnNull" ->
         ( IF ReturnWords(c) = {} THEN c
           ELSE Splice(c, Min(ReturnWords(c)), Nx(c, Min(ReturnWords(c))), <<"return", "null">>) )
    [] m = "genericReturnEmptyString" ->
         ( IF ReturnStrings(c) = {} THEN c
           ELSE Splice(c, Min(ReturnStrings(c)), Nx(c, Min(ReturnStrings(c))), <<"return", "\"\"">>) )
    [] m = "genericTrueToFalse" -> ReplaceFirstWord(c, "true", "false")
    [] m = "genericFalseToTrue" -> ReplaceFirstWord(c, "false", "true")

\* the mutation's description; no two mutations share one
description(m) ==
  CASE m = "sliceOffFirstChar" -> "Added .slice(1) to a text field, cutting off the first character"
    [] m = "sliceOffLastChars" -> "Added .slice(0, -3) to a text field, cutting off the last 3 characters"
    [] m = "hideLastItems" -> "Added .slice(0, -2) before .map(), hiding the last 2 items"
    [] m = "filterOutHalfItems" -> "Added filter that only shows every other item (even indices)"
    [] m = "returnEmptyArray" -> "Return empty array before the actual mapped data"
    [] m = "useFirstIdForAll" -> "Changed to use first item's ID for all items (all IDs now identical)"
    [] m = "wrongPropertyName" -> "Typo in property name causes undefined (e.g., .name -> .nam)"
    [] m = "setPropertyToNull" -> "Set a key property to null, causing undefined display"
    [] m = "removeOptionalChaining" -> "Removed all optional chaining (?. -> .) causing null pointer crashes"
    [] m = "deletePropertyBeforeUse" -> "Deleted a property from object before it's accessed"
    [] m = "wrongLengthCount" -> "Changed .length to .length - 2, showing wrong item count"
    [] m = "returnZeroPrice" -> "Return 0 instead of calculated price/total"
    [] m = "mapToForEach" -> "Changed .map() to .forEach() - returns undefined instead of array"
    [] m = "invertConditionalDisplay" -> "Inverted conditional rendering - shows when should hide, hides when should show"
    [] m = "returnUndefinedFromFunction" -> "Added early return undefined, function returns nothing"
    [] m = "offByOneLessThan" -> "Changed loop boundary from < to <= (off-by-one, may process extra item)"
    [] m = "zeroToOne" -> "Changed array index from [0] to [1], skipping first item"
    [] m = "removeAwait" -> "Removed 'await' keyword - data shows as [object Promise] or undefined"
    [] m = "genericReturnNull" -> "Changed return value to null - data shows as null/empty"
    [] m = "genericReturnEmptyString" -> "Changed return value to empty string - text displays as blank"
    [] m = "genericTrueToFalse" -> "Changed 'true' to 'false' - affects visibility/display logic"
    [] m = "genericFalseToTrue" -> "Changed 'false' to 'true' - affects visibility/display logic"

NoChangeEntry == "No automatic changes could be applied - file may need manual review"

\* ------------------------------------------------------------ source texts
\* sample source lines, one per pattern the mutations look for
Line ==
  [ MapName |-> <<"return", "items", ".map", "(", "(", "item", ")", "=>", "item", ".name", ")">>,
    MapId |-> <<"return", "items", ".map", "(", "(", "item", ")", "=>", "item", ".id", ")">>,
    ObjName |-> <<"const", "user", "=", "{", "name:", "total", "}">>,
    ObjId |-> <<"const", "user", "=", "{", "id:", "total", "}">>,
    ReturnTotal |-> <<"return", "total">>,
    Optional |-> <<"show", "(", "user", "?.name", ")">>,
    Length |-> <<"return", "items", ".length">>,
    Ternary |-> <<"show", "?", "<", "b", ">">>,
    And |-> <<"show", "&&", "<", "b", ">">>,
    Function |-> <<"function", "load", "(", ")", "{">>,
    Arrow |-> <<"const", "load", "=", "(", "item", ")", "=>", "item", ".name">>,
    For |-> <<"for", "(", "i", "=", "0", ";", "i", "<", "total", ";", "i", "++", ")">>,
    Index |-> <<"return", "items", "[", "0", "]">>,
    Await |-> <<"await", "load", "(", ")">>,
    True |-> <<"true">>,
    False |-> <<"false">>,
    ReturnString |-> <<"return", "'hi'">>,
    ReturnEmpty |-> <<"return", "\"\"">>,
    ReturnNull |-> <<"return", "null">> ]

Lines == {Line[n] : n \in DOMAIN Line}

LinePairs ==
  { <<Line.True, Line.False>>, <<Line.False, Line.True>>, <<Line.True, Line.True>>,
    <<Line.ReturnNull, Line.True>>, <<Line.ReturnString, Line.ReturnTotal>>,
    <<Line.ReturnEmpty, Line.False>>, <<Line.MapName, Line.Index>>,
    <<Line.MapId, Line.Index>>, <<Line.ObjName, Line.MapName>>,
    <<Line.ObjId, Line.ReturnTotal>>, <<Line.ObjId, Line.Length>>,
    <<Line.Function, Line.ObjName>>, <<Line.Arrow, Line.Function>>,
    <<Line.Ternary, Line.And>>, <<Line.For, Line.Await>>, <<Line.Optional, Line.ObjName>>,
    <<Line.Length, Line.Index>>, <<Line.MapName, Line.MapId>>,
    <<Line.Function, Line.ReturnTotal>>, <<Line.Await, Line.Ternary>> }

\* the empty file, the one-line files and the two-line files
Texts == {<<>>} \cup Lines \cup {p[1] \o <<NL>> \o p[2] : p \in LinePairs}

\* ------------------------------------------------------------ file names
\* a file name is the sequence of its "."-separated parts (filename.split("."))
Filenames ==
  { <<"app", "ts">>, <<"View", "JSX">>, <<"notes", "txt">>, <<"Makefile">>, <<"js">> }

toLowerCase(part) ==
  CASE part = "JSX" -> "jsx"
    [] part = "View" -> "view"
    [] part = "Makefile" -> "makefile"
    [] part = "DEV" -> "dev"
    [] OTHER -> part

\* filename.split(".").pop()?.toLowerCase()
Ext(filename) == toLowerCase(filename[Len(filename)])

\* ["ts", "tsx", "js", "jsx"].includes(ext || "") ? jsMutations : genericMutations
AvailableMutations(filename) ==
  IF Ext(filename) \in {"ts", "tsx", "js", "jsx"} THEN jsMutations ELSE genericMutations

\* availableMutations.filter(m => m.canApply(modifiedContent))
RECURSIVE Filter(_, _)
Filter(ms, c) ==
  IF ms = <<>> THEN <<>>
  ELSE IF canApply(Head(ms), c) THEN <<Head(ms)>> \o Filter(Tail(ms), c)
       ELSE Filter(Tail(ms), c)

\* ------------------------------------------------------------ fallbackStress as a function
\* if (changes.length >= bugCount) break
LoopBreaksLate(changes, bugCount) == Len(changes) > bugCount

LoopBreaksNever(changes, bugCount) == FALSE

LoopBreaks(changes, bugCount) == Len(changes) >= bugCount

\* if (changes.length === 0) changes.push("No automatic changes ...")
LastResortNever(changes) == changes

LastResortAlways(changes) == Append(changes, NoChangeEntry)

LastResort(changes) == IF Len(changes) = 0 THEN <<NoChangeEntry>> ELSE changes

\* the for-of loop over the shuffled applicable mutations, from position i on
RECURSIVE ApplyLoop(_, _, _, _, _)
ApplyLoop(ms, i, bugCount, modifiedContent, changes) ==
  IF i > Len(ms) \/ LoopBreaks(changes, bugCount)
  THEN [content |-> modifiedContent, changes |-> changes]
  ELSE IF canApply(ms[i], modifiedContent) /\ apply(ms[i], modifiedContent) # modifiedContent
       THEN ApplyLoop(ms, i + 1, bugCount, apply(ms[i], modifiedContent),
                      Append(changes, description(ms[i])))
       ELSE ApplyLoop(ms, i + 1, bugCount, modifiedContent, changes)

\* the value fallbackStress(content, filename, _, stressLevel, targetBugCount)
\* returns when its first Math.random() call is the k-th of the request
fallbackStress(content, filename, stressLevel, targetBugCount, rnd, k) ==
  LET applicable == Filter(AvailableMutations(filename), content)
      shuffled == shuffleArray(applicable, rnd, k)
      k2 == k + ShuffleDraws(applicable)
      bugCount == BugCount(targetBugCount, stressLevel, rnd, k2)
      k3 == k2 + BugCountDraws(targetBugCount)
      looped == ApplyLoop(shuffled, 1, bugCount, content, <<>>)
  IN  [content |-> looped.content,
       changes |-> LastResort(looped.changes),
       symptoms |-> generateFallbackSymptoms(LastResort(looped.changes), rnd, k3)]

\* ------------------------------------------------------------ the collaborator's text
\* The text generateText resolves with, as lexemes: "prose" is text without
\* braces, "{" and "}" are braces, and a field lexeme is one "key": value
\* member: "mc" a non-empty modifiedCode, "mc_empty" modifiedCode "",
\* "ch" a changes array of two entries, "ch4" one of four entries, "ch_empty"
\* the array [], "sy" a symptoms array.
FieldLexemes == {"mc", "mc_empty", "ch", "ch4", "ch_empty", "sy"}

Responses ==
  { <<"prose">>,
    <<"{", "mc", "ch", "sy", "}">>,
    <<"{", "mc", "ch", "}">>,
    <<"{", "mc", "ch4", "}">>,
    <<"{", "mc", "ch_empty", "}">>,
    <<"prose", "{", "mc", "ch", "}", "prose">>,
    <<"{", "mc", "}">>,
    <<"{", "mc_empty", "ch", "}">>,
    <<"{", "prose", "}">>,
    <<"{", "mc", "ch", "}", "prose", "{", "}">> }

\* text.match(/\{[\s\S]*\}/): from the first "{" to the last "}"
jsonMatch(text) ==
  LET opens == {i \in 1..Len(text) : text[i] = "{"}
      closes == {i \in 1..Len(text) : text[i] = "}"}
  IN  IF opens = {} \/ closes = {} THEN <<>>
      ELSE LET last == CHOOSE x \in closes : \A y \in closes : y <= x
           IN  IF Min(opens) < last THEN SubSeq(text, Min(opens), last) ELSE <<>>

\* JSON.parse accepts the match: one object whose members are fields
ParsesAsJson(m) ==
  /\ Len(m) >= 2
  /\ \A i \in 2..(Len(m) - 1) : m[i] \in FieldLexemes

\* !parsed.modifiedCode || !parsed.changes ("" is falsy, [] is not)
MissingFields(m) ==
  ~("mc" \in Range(m)) \/ Range(m) \cap {"ch", "ch4", "ch_empty"} = {}

AiCode == <<"return", "items", ".map", "(", "(", "item", ")", "=>", "item", ".nam", ")">>

AiChanges == <<"changed item.name to item.nam", "second change">>

\* parsed.changes of an object that has modifiedCode and changes
Changes(m) ==
  IF "ch" \in Range(m) THEN AiChanges
  ELSE IF "ch4" \in Range(m) THEN AiChanges \o <<"third change", "fourth change">>
  ELSE <<>>

AiSymptoms == <<"profile: names are blank">>

\* ------------------------------------------------------------ the catalog (catalog-driven version)
\* BUG_TYPES: id, category, priority and (the beginning of) sampleSymptom of each entry
BUG_TYPES ==
  << [id |-> "string-reverse", category |-> "STRING_CORRUPTION", priority |-> "high",
       sampleSymptom |-> "In the user profile: All names appear backwa"],
     [id |-> "string-uppercase", category |-> "STRING_CORRUPTION", priority |-> "high",
       sampleSymptom |-> "On the product page: All product names are i"],
     [id |-> "string-remove-spaces", category |-> "STRING_CORRUPTION", priority |-> "high",
       sampleSymptom |-> "In the description field: All text runs toge"],
     [id |-> "string-slice-start", category |-> "STRING_CORRUPTION", priority |-> "high",
       sampleSymptom |-> "In the search bar: The first letter of every"],
     [id |-> "string-slice-end", category |-> "STRING_CORRUPTION", priority |-> "high",
       sampleSymptom |-> "In the labels: The last few characters are c"],
     [id |-> "string-wrong-encoding", category |-> "STRING_CORRUPTION", priority |-> "high",
       sampleSymptom |-> "On the display: Text shows weird encoding. H"],
     [id |-> "string-wrong-concat", category |-> "STRING_CORRUPTION", priority |-> "high",
       sampleSymptom |-> "On the user card: Names appear as Smith John"],
     [id |-> "array-slice-end", category |-> "DATA_DISAPPEARING", priority |-> "high",
       sampleSymptom |-> "On the product list: The last 2 items are co"],
     [id |-> "array-filter-half", category |-> "DATA_DISAPPEARING", priority |-> "high",
       sampleSymptom |-> "In the item grid: Half the items are complet"],
     [id |-> "array-return-empty", category |-> "DATA_DISAPPEARING", priority |-> "high",
       sampleSymptom |-> "On the dashboard: The list is completely emp"],
     [id |-> "array-wrong-filter", category |-> "DATA_DISAPPEARING", priority |-> "high",
       sampleSymptom |-> "On the page: All items have disappeared. The"],
     [id |-> "destructure-wrong", category |-> "DATA_DISAPPEARING", priority |-> "high",
       sampleSymptom |-> "On the form: All the pre-filled values are m"],
     [id |-> "same-id-all", category |-> "SAME_VALUE", priority |-> "high",
       sampleSymptom |-> "In the user cards: Every single card shows t"],
     [id |-> "same-text-all", category |-> "SAME_VALUE", priority |-> "high",
       sampleSymptom |-> "When viewing comments: Every comment shows t"],
     [id |-> "cache-outside-loop", category |-> "SAME_VALUE", priority |-> "high",
       sampleSymptom |-> "On the list: All items show identical values"],
     [id |-> "wrong-closure", category |-> "SAME_VALUE", priority |-> "medium",
       sampleSymptom |-> "In the click handlers: Every button performs"],
     [id |-> "property-typo", category |-> "UNDEFINED_NULL", priority |-> "high",
       sampleSymptom |-> "On the dashboard: All the user names are sho"],
     [id |-> "return-undefined", category |-> "UNDEFINED_NULL", priority |-> "high",
       sampleSymptom |-> "After loading: The entire content area is bl"],
     [id |-> "delete-before-use", category |-> "UNDEFINED_NULL", priority |-> "high",
       sampleSymptom |-> "On the profile page: Key information is miss"],
     [id |-> "wrong-optional-chain", category |-> "UNDEFINED_NULL", priority |-> "high",
       sampleSymptom |-> "After loading the page: App crashes with whi"],
     [id |-> "wrong-nullish", category |-> "UNDEFINED_NULL", priority |-> "medium",
       sampleSymptom |-> "On the form: Default values arent appearing"],
     [id |-> "off-by-one-length", category |-> "CALCULATION", priority |-> "high",
       sampleSymptom |-> "On the counter display: Shows 3 items but th"],
     [id |-> "return-zero", category |-> "CALCULATION", priority |-> "high",
       sampleSymptom |-> "On the pricing page: All prices show 0.00. I"],
     [id |-> "wrong-math-op", category |-> "CALCULATION", priority |-> "high",
       sampleSymptom |-> "In the cart: The total price calculation is"],
     [id |-> "wrong-comparison", category |-> "CALCULATION", priority |-> "medium",
       sampleSymptom |-> "On the pagination: Clicking Next goes backwa"],
     [id |-> "wrong-rounding", category |-> "CALCULATION", priority |-> "medium",
       sampleSymptom |-> "In the quantity display: Values are always r"],
     [id |-> "invert-condition", category |-> "RENDERING", priority |-> "high",
       sampleSymptom |-> "When viewing the list: Items that should be"],
     [id |-> "map-to-foreach", category |-> "RENDERING", priority |-> "high",
       sampleSymptom |-> "On the list page: The entire list is blank."],
     [id |-> "wrong-sort", category |-> "RENDERING", priority |-> "medium",
       sampleSymptom |-> "On the feed: Newest items appear at the bott"],
     [id |-> "wrong-index", category |-> "RENDERING", priority |-> "high",
       sampleSymptom |-> "On the detail view: Its showing the next ite"],
     [id |-> "missing-await", category |-> "ASYNC", priority |-> "high",
       sampleSymptom |-> "On the dashboard: Instead of data, I see obj"],
     [id |-> "wrong-promise-method", category |-> "ASYNC", priority |-> "medium",
       sampleSymptom |-> "When loading the page: Sometimes the whole p"],
     [id |-> "input-truncate", category |-> "FORM", priority |-> "high",
       sampleSymptom |-> "In the text input: I can only type 5 charact"],
     [id |-> "input-clear", category |-> "FORM", priority |-> "high",
       sampleSymptom |-> "In the form: Every time I type something, th"],
     [id |-> "validation-invert", category |-> "FORM", priority |-> "high",
       sampleSymptom |-> "On the form: Valid emails are rejected and g"],
     [id |-> "wrong-event", category |-> "FORM", priority |-> "medium",
       sampleSymptom |-> "In the dropdown: Selecting an option doesnt"],
     [id |-> "boolean-flip", category |-> "LOGIC", priority |-> "medium",
       sampleSymptom |-> "On the settings page: The toggle says ON but"],
     [id |-> "wrong-ternary", category |-> "LOGIC", priority |-> "high",
       sampleSymptom |-> "In the status display: Active items show as"],
     [id |-> "wrong-logical-op", category |-> "LOGIC", priority |-> "medium",
       sampleSymptom |-> "On the filter: Items only show when ALL filt"],
     [id |-> "string-concat-number", category |-> "TYPE", priority |-> "high",
       sampleSymptom |-> "In the total: The price shows 510.00 instead"],
     [id |-> "wrong-parse", category |-> "TYPE", priority |-> "medium",
       sampleSymptom |-> "On the quantity input: Entering 08 or 09 giv"],
     [id |-> "pipeline-normalizer", category |-> "PIPELINE", priority |-> "medium",
       sampleSymptom |-> "Throughout the app: Data looks slightly wron"],
     [id |-> "pipeline-formatter", category |-> "PIPELINE", priority |-> "medium",
       sampleSymptom |-> "On every list: The last item is always missi"],
     [id |-> "pipeline-validator", category |-> "PIPELINE", priority |-> "medium",
       sampleSymptom |-> "After validation: Valid items are being reje"],
     [id |-> "pipeline-chain", category |-> "PIPELINE", priority |-> "high",
       sampleSymptom |-> "Data corruption happens somewhere in the pro"] >>

\* switch (stressLevel): priorityFilter
priorityFilterLowAllowsMedium(stressLevel) ==
  CASE stressLevel = "low" -> {"high", "medium"}
    [] stressLevel = "medium" -> {"high", "medium"}
    [] stressLevel = "high" -> {"high", "medium", "low"}

priorityFilter(stressLevel) ==
  CASE stressLevel = "low" -> {"high"}
    [] stressLevel = "medium" -> {"high", "medium"}
    [] stressLevel = "high" -> {"high", "medium", "low"}

\* BUG_TYPES.filter(bug => priorityFilter.includes(bug.priority))
applicableBugs(catalog, stressLevel) ==
  SelectSeq(catalog, LAMBDA bug : bug.priority \in priorityFilter(stressLevel))

\* first pass: pick one from each category
RECURSIVE FirstPassAnyCategory(_, _, _, _)
FirstPassAnyCategory(shuffled, i, count, selected) ==
  IF i > Len(shuffled) \/ Len(selected) >= count THEN selected
  ELSE FirstPassAnyCategory(shuffled, i + 1, count, Append(selected, shuffled[i]))

RECURSIVE FirstPass(_, _, _, _)
FirstPass(shuffled, i, count, selected) ==
  IF i > Len(shuffled) \/ Len(selected) >= count THEN selected
  ELSE IF shuffled[i].category \notin {selected[x].category : x \in 1..Len(selected)}
       THEN FirstPass(shuffled, i + 1, count, Append(selected, shuffled[i]))
       ELSE FirstPass(shuffled, i + 1, count, selected)

\* second pass: if we still need more, allow category repeats
SecondPassSkipped(shuffled, i, count, selected) == selected

RECURSIVE SecondPass(_, _, _, _)
SecondPass(shuffled, i, count, selected) ==
  IF i > Len(shuffled) \/ Len(selected) >= count THEN selected
  ELSE IF shuffled[i] \notin Range(selected)
       THEN SecondPass(shuffled, i + 1, count, Append(selected, shuffled[i]))
       ELSE SecondPass(shuffled, i + 1, count, selected)

\* selectRandomBugTypes(count, stressLevel) on the module's BUG_TYPES (catalog),
\* when its first Math.random() call is the k-th of the request
selectRandomBugTypes(count, stressLevel, catalog, rnd, k) ==
  LET shuffled == shuffleArray(applicableBugs(catalog, stressLevel), rnd, k)
  IN  SecondPass(shuffled, 1, count, FirstPass(shuffled, 1, count, <<>>))

SelectDraws(stressLevel, catalog) == ShuffleDraws(applicableBugs(catalog, stressLevel))

\* const shuffled = [...applicableBugs]: the shuffle works on a copy, BUG_TYPES stays
CatalogShuffledInPlace(catalog, stressLevel, rnd, k) == shuffleArray(catalog, rnd, k)

CatalogAfterSelect(catalog, stressLevel, rnd, k) == catalog

\* selectedBugs.map(b => b.sampleSymptom)
sampleSymptoms(selected) == [i \in 1..Len(selected) |-> selected[i].sampleSymptom]

\* the right-hand side of parsed.symptoms || ...: generateFallbackSymptoms(parsed.changes),
\* or selectedBugs.map(b => b.sampleSymptom) in the catalog-driven version
BackfillAlwaysSynthesized(v, changes, selected, rnd, k) ==
  generateFallbackSymptoms(changes, rnd, k)

BackfillSymptoms(v, changes, selected, rnd, k) ==
  IF v = "catalog" THEN sampleSymptoms(selected)
  ELSE generateFallbackSymptoms(changes, rnd, k)

BackfillDraws(v) == IF v = "catalog" THEN 0 ELSE SymptomDraws

\* ------------------------------------------------------------ state
VARIABLES
  version,   \* the version of the module: "fallback" (falls back to
             \* fallbackStress), "throwing" (raises AIStressError) or
             \* "catalog" (raises AIStressError, picks bugs from BUG_TYPES)
  args,      \* introduceAIStress(content, filename, context, stressLevel, targetBugCount)
  rnd,       \* the randomness source of this request
  drawn,     \* number of Math.random() calls made so far
  pc,        \* where introduceAIStress is
  bugCount,  \* introduceAIStress's bugCount
  fb,        \* the frame of the fallbackStress call
  outcome,   \* what the caller of introduceAIStress receives
  selectedBugs, \* introduceAIStress's selectedBugs (catalog-driven version)
  text,      \* the text generateText resolved with
  bugTypes,  \* the module-level array BUG_TYPES, shared by all requests
  others,    \* number of times another request ran while this one was suspended
  hook       \* the state of the dashboard's useRepoBranchSelector hook
vars ==
  <<version, args, rnd, drawn, pc, bugCount, fb, outcome, selectedBugs, text, bugTypes, others, hook>>

\* ------------------------------------------------ the dashboard hook
\* useRepoBranchSelector (src/app/hooks/useRepoBranchSelector.ts): the
\* repository, branch and commit selection of the dashboard. The selection
\* lives in the URL (url), the data in React state, the lastFetched* fields are
\* refs. The score panel, the dialogs, branch creation and the bulk deletion
\* are left out.

NULL == "null"

\* what the server holds: two repositories, two branches each, one commit a
\* branch; a commit is its sha, which names its branch
\* the branches the server lists for a repository
BranchesOf(repo, deleted) ==
  SelectSeq(IF repo = "acme/app" THEN <<"main", "feature-app">> ELSE <<"DEV", "fix-site">>,
            LAMBDA b : <<repo, b>> \notin deleted)

CommitsOf(repo, branch) ==
  << CASE branch = "main" -> "sha.main"
       [] branch = "feature-app" -> "sha.feature-app"
       [] branch = "DEV" -> "sha.DEV"
       [] OTHER -> "sha.fix-site" >>

\* the state after the first render with nothing selected; tb and tc say that
\* setBranches and setCommits were called since the last render
HookStart ==
  [url |-> [repo |-> NULL, branch |-> NULL, commit |-> NULL],
   branches |-> <<>>, commits |-> <<>>, commitDetails |-> NULL,
   loadingBranches |-> FALSE, loadingCommits |-> FALSE, loadingDetails |-> FALSE,
   error |-> NULL, deletingBranch |-> FALSE,
   lastFetchedRepo |-> NULL, lastFetchedBranch |-> NULL, lastFetchedCommit |-> NULL,
   inflight |-> {}, deleted |-> {}, deleteRequests |-> {},
   tb |-> FALSE, tc |-> FALSE, clicks |-> 0, last |-> "mount"]

\* a request on its way: what it asks for and what its callbacks closed over
Request(kind, h, sha) ==
  [kind |-> kind, repo |-> h.url.repo, branch |-> h.url.branch, sha |-> sha,
   urlCommit |-> h.url.commit]

\* commits.find(c => c.sha.startsWith(urlCommit)) || null
selectedCommit(h) ==
  IF h.url.commit # NULL /\ h.url.commit \in Range(h.commits) THEN h.url.commit ELSE NULL

\* the effect that fetches the branches of the selected repository; snap is
\* the render the effect closed over, cur the state it acts on
BranchesEffect(snap, cur) ==
  IF snap.url.repo = NULL
  THEN [cur EXCEPT !.branches = <<>>, !.tb = TRUE, !.commits = <<>>, !.tc = TRUE,
                   !.commitDetails = NULL, !.lastFetchedRepo = NULL,
                   !.lastFetchedBranch = NULL, !.lastFetchedCommit = NULL]
  ELSE IF cur.lastFetchedRepo = snap.url.repo
  THEN cur
  ELSE [cur EXCEPT !.lastFetchedRepo = snap.url.repo, !.lastFetchedBranch = NULL,
                   !.lastFetchedCommit = NULL, !.branches = <<>>, !.tb = TRUE,
                   !.commits = <<>>, !.tc = TRUE, !.commitDetails = NULL,
                   !.loadingBranches = TRUE, !.error = NULL,
                   !.inflight = @ \cup {Request("branches", snap, NULL)}]

\* the effect that fetches the commits of the selected branch
CommitsEffect(snap, cur) ==
  IF snap.url.branch = NULL \/ snap.url.repo = NULL
  THEN cur
  ELSE IF snap.branches # <<>> /\ snap.url.branch \notin Range(snap.branches)
  THEN cur
  ELSE IF cur.lastFetchedBranch = snap.url.branch
  THEN cur
  ELSE [cur EXCEPT !.lastFetchedBranch = snap.url.branch, !.commitDetails = NULL,
                   !.commits = <<>>, !.tc = TRUE, !.loadingCommits = TRUE,
                   !.error = NULL,
                   !.inflight = @ \cup {Request("commits", snap, NULL)}]

\* the effect that fetches the details of the selected commit
DetailsEffect(snap, cur) ==
  IF selectedCommit(snap) = NULL \/ snap.url.repo = NULL
  THEN cur
  ELSE IF cur.lastFetchedCommit = selectedCommit(snap)
  THEN cur
  ELSE IF snap.commitDetails = selectedCommit(snap)
  THEN cur
  ELSE [cur EXCEPT !.lastFetchedCommit = selectedCommit(snap),
                   !.loadingDetails = TRUE, !.error = NULL,
                   !.inflight = @ \cup {Request("details", snap, selectedCommit(snap))}]

\* React renders until nothing changes: a render runs, in the order they are
\* declared, the effects of which a dependency differs from the previous
\* render (prev); a state setter called with a new array changes a dependency
RECURSIVE Render(_, _)
Render(prev, cur) ==
  LET base == [cur EXCEPT !.tb = FALSE, !.tc = FALSE]
      e1 == IF cur.url.repo # prev.url.repo THEN BranchesEffect(cur, base) ELSE base
      e2 == IF cur.url # prev.url \/ cur.tb THEN CommitsEffect(cur, e1) ELSE e1
      e3 == IF \/ selectedCommit(cur) # selectedCommit(prev)
               \/ cur.tc /\ selectedCommit(cur) # NULL
               \/ cur.url.repo # prev.url.repo
               \/ cur.commitDetails # prev.commitDetails
            THEN DetailsEffect(cur, e2)
            ELSE e2
  IN  IF e3 = base THEN base ELSE Render(base, e3)

IsProtectedCaseSensitive(branch) == branch \in {"main", "master", "develop", "dev"}

\* protectedBranches.includes(selectedBranch.toLowerCase())
IsProtected(branch) == toLowerCase(branch) \in {"main", "master", "develop", "dev"}

\* targetBugCount is any number the caller passes: -1 stands for the negative ones
Targets == {NONE} \cup {Given(n) : n \in (-1)..MaxTarget}

NoFrame ==
  [phase |-> "IDLE", content |-> <<>>, filename |-> <<>>, stressLevel |-> "medium",
   targetBugCount |-> NONE, entry |-> 0, availableMutations |-> <<>>,
   applicableMutations |-> <<>>, bugCount |-> 0, next |-> 1,
   modifiedContent |-> <<>>, changes |-> <<>>, applied |-> <<>>, context |-> UNDEF]

\* the call fallbackStress(content, filename, _context, stressLevel, targetBugCount):
\* const changes = []; let modifiedContent = content
NewFrame(content, filename, context, stressLevel, targetBugCount, k) ==
  [phase |-> "INIT", content |-> content, filename |-> filename,
   stressLevel |-> stressLevel, targetBugCount |-> targetBugCount, entry |-> k,
   availableMutations |-> <<>>, applicableMutations |-> <<>>, bugCount |-> 0,
   next |-> 1, modifiedContent |-> content, changes |-> <<>>, applied |-> <<>>,
   context |-> context]

NoOutcome ==
  [kind |-> "none", content |-> <<>>, changes |-> <<>>, symptoms |-> <<>>,
   error |-> "", message |-> "", cause |-> ""]

Returned(content, changes, symptoms) ==
  [kind |-> "result", content |-> content, changes |-> changes,
   symptoms |-> symptoms, error |-> "", message |-> "", cause |-> ""]

\* an error of class `error` with its message and the class of its cause
\* ("" when it was constructed without one)
Thrown(error, message, cause) ==
  [kind |-> "error", content |-> <<>>, changes |-> <<>>, symptoms |-> <<>>,
   error |-> error, message |-> message, cause |-> cause]

\* the four texts of the requests with a context, and of the smaller
\* specifications: the empty one, one no mutation changes, one that two
\* mutations change, one with a JS pattern
FewTexts == {<<>>, Line.ReturnEmpty, Line.True \o <<NL>> \o Line.False, Line.MapName}

\* The versions without fallbackStress never look into the content, so their
\* requests are drawn from the one-line texts only.
Init ==
  /\ version \in {"fallback", "throwing", "catalog"}
  /\ args \in [content : Texts, filename : Filenames, context : {UNDEF, "the login form"},
               stressLevel : StressLevels, targetBugCount : Targets]
  /\ version # "fallback" => args.content \in Lines /\ args.filename = <<"app", "ts">>
  /\ args.context # UNDEF => args.content \in FewTexts
  /\ rnd \in RandStreams
  /\ drawn = 0
  /\ pc = "import"
  /\ bugCount = 0
  /\ fb = NoFrame
  /\ outcome = NoOutcome
  /\ selectedBugs = <<>>
  /\ text = <<>>
  /\ bugTypes = BUG_TYPES
  /\ others = 0
  /\ hook = HookStart

\* ------------------------------------------------------------ introduceAIStress
\* the targetBugCount the catch blocks hand to fallbackStress
ImportCatchTarget(a) == NONE

CallCatchTarget(a) == a.targetBugCount

\* whether the catch blocks of version v return fallbackStress(...); those of
\* the other versions raise AIStressError
CatchRethrows(v) == FALSE

CatchFallsBack(v) == v = "fallback"

\* what the try block of version v throws itself: new AIStressError(message),
\* or new Error(message) in the version that falls back
ThrownInside(v, message) ==
  Thrown(IF v = "fallback" THEN "Error" ELSE "AIStressError", message, "")

\* catch (error) { if (error instanceof AIStressError) throw error;
\*                 throw new AIStressError("AI stress generation failed ...", error) }
CatchCallNeverWraps(thrown) == thrown

CatchCall(thrown) ==
  IF thrown.error = "AIStressError" THEN thrown
  ELSE Thrown("AIStressError", "AI stress generation failed", thrown.error)

\* what a failure at `where` ("import" or "call") with the error `thrown`
\* does; the try block is left, and with it the scope of text
Fail(where, thrown) ==
  /\ text' = <<>>
  /\ IF CatchFallsBack(version)
     THEN /\ fb' = NewFrame(args.content, args.filename, args.context, args.stressLevel,
                            IF where = "import" THEN ImportCatchTarget(args)
                            ELSE CallCatchTarget(args), drawn)
          /\ pc' = "fallback"
          /\ outcome' = outcome
     ELSE /\ outcome' = IF where = "import"
                        THEN Thrown("AIStressError", "AI SDK not available", thrown.error)
                        ELSE CatchCall(thrown)
          /\ pc' = "thrown"
          /\ fb' = fb

\* await import("@ai-sdk/anthropic") succeeds
ImportOk ==
  /\ pc = "import"
  /\ pc' = "prompt"
  /\ UNCHANGED <<version, args, rnd, drawn, bugCount, fb, outcome, selectedBugs, text, bugTypes, others, hook>>

\* await import("@ai-sdk/anthropic") throws
ImportFails ==
  /\ pc = "import"
  /\ Fail("import", Thrown("Error", "Cannot find module", ""))
  /\ UNCHANGED <<version, args, rnd, drawn, bugCount, selectedBugs, bugTypes, others, hook>>

\* bugCount = ...; then randomSeed = Math.random()... before it, or
\* selectedBugs = selectRandomBugTypes(bugCount, stressLevel) after it in the
\* catalog-driven version; the prompt; generateText is called
BuildPrompt ==
  /\ pc = "prompt"
  /\ IF version = "catalog"
     THEN LET count == BugCount(args.targetBugCount, args.stressLevel, rnd, drawn)
              k == drawn + BugCountDraws(args.targetBugCount)
          IN  /\ bugCount' = count
              /\ selectedBugs' = selectRandomBugTypes(count, args.stressLevel, bugTypes, rnd, k)
              /\ bugTypes' = CatalogAfterSelect(bugTypes, args.stressLevel, rnd, k)
              /\ drawn' = k + SelectDraws(args.stressLevel, bugTypes)
     ELSE /\ bugCount' = BugCount(args.targetBugCount, args.stressLevel, rnd, drawn + 1)
          /\ drawn' = drawn + 1 + BugCountDraws(args.targetBugCount)
          /\ UNCHANGED <<selectedBugs, bugTypes, others, hook>>
  /\ pc' = "generate"
  /\ UNCHANGED <<version, args, rnd, fb, outcome, text, others, hook>>

\* generateText rejects (no API key, quota, network)
GenerateRejectsAndRetries ==
  /\ pc = "generate"
  /\ pc' = "prompt"
  /\ UNCHANGED <<version, args, rnd, drawn, bugCount, fb, outcome, selectedBugs, text,
                 bugTypes, others, hook>>

GenerateRejects ==
  /\ pc = "generate"
  /\ Fail("call", Thrown("Error", "generateText rejected", ""))
  /\ UNCHANGED <<version, args, rnd, drawn, bugCount, selectedBugs, bugTypes, others, hook>>

\* const { text } = await generateText(...) resolves
GenerateResolves ==
  /\ pc = "generate"
  /\ text' \in Responses
  /\ pc' = "parse"
  /\ UNCHANGED <<version, args, rnd, drawn, bugCount, fb, outcome, selectedBugs, bugTypes, others, hook>>

\* no {...} is found in the text
ResponseWithoutJson ==
  /\ pc = "parse"
  /\ jsonMatch(text) = <<>>
  /\ Fail("call", ThrownInside(version, "Failed to parse AI response"))
  /\ UNCHANGED <<version, args, rnd, drawn, bugCount, selectedBugs, bugTypes, others, hook>>

\* JSON.parse rejects the {...}: a SyntaxError
ResponseBadJson ==
  /\ pc = "parse"
  /\ jsonMatch(text) # <<>> /\ ~ParsesAsJson(jsonMatch(text))
  /\ Fail("call", Thrown("SyntaxError", "Unexpected token", ""))
  /\ UNCHANGED <<version, args, rnd, drawn, bugCount, selectedBugs, bugTypes, others, hook>>

\* the object lacks modifiedCode or changes
ResponseMissingFields ==
  /\ pc = "parse"
  /\ jsonMatch(text) # <<>>
  /\ ParsesAsJson(jsonMatch(text))
  /\ MissingFields(jsonMatch(text))
  /\ Fail("call", ThrownInside(version, "Invalid AI response structure"))
  /\ UNCHANGED <<version, args, rnd, drawn, bugCount, selectedBugs, bugTypes, others, hook>>

\* the object has modifiedCode and changes: return { content, changes, symptoms }
ResponseOk ==
  /\ pc = "parse"
  /\ jsonMatch(text) # <<>>
  /\ ParsesAsJson(jsonMatch(text))
  /\ ~MissingFields(jsonMatch(text))
  /\ IF "sy" \in Range(jsonMatch(text))
     THEN /\ outcome' = Returned(AiCode, Changes(jsonMatch(text)), AiSymptoms)
          /\ drawn' = drawn
     ELSE /\ outcome' = Returned(AiCode, Changes(jsonMatch(text)),
                                 BackfillSymptoms(version, Changes(jsonMatch(text)),
                                                  selectedBugs, rnd, drawn))
          /\ drawn' = drawn + BackfillDraws(version)
  /\ pc' = "returned"
  /\ UNCHANGED <<version, args, rnd, bugCount, fb, selectedBugs, text, bugTypes, others, hook>>

\* ------------------------------------------------------------ fallbackStress, step by step
\* ext, config, the two rule tables, availableMutations
FbChooseFamilyByContext ==
  /\ pc = "fallback"
  /\ fb.phase = "INIT"
  /\ fb' = [fb EXCEPT !.phase = "SELECTING_RULES",
                      !.availableMutations =
                         IF fb.context # UNDEF THEN genericMutations
                         ELSE AvailableMutations(fb.filename)]
  /\ UNCHANGED <<version, args, rnd, drawn, pc, bugCount, outcome, selectedBugs, text, bugTypes, others, hook>>

FbChooseFamily ==
  /\ pc = "fallback"
  /\ fb.phase = "INIT"
  /\ fb' = [fb EXCEPT !.phase = "SELECTING_RULES",
                      !.availableMutations = AvailableMutations(fb.filename)]
  /\ UNCHANGED <<version, args, rnd, drawn, pc, bugCount, outcome, selectedBugs, text, bugTypes, others, hook>>

\* applicableMutations = filter; shuffleArray(applicableMutations); bugCount
FbFilterShuffleStaleCount ==
  /\ pc = "fallback"
  /\ fb.phase = "SELECTING_RULES"
  /\ LET applicable == Filter(fb.availableMutations, fb.modifiedContent)
         k == drawn + ShuffleDraws(applicable)
     IN  /\ fb' = [fb EXCEPT !.phase = "APPLYING",
                             !.applicableMutations = shuffleArray(applicable, rnd, drawn),
                             !.bugCount = bugCount,
                             !.next = 1]
         /\ drawn' = k + BugCountDraws(fb.targetBugCount)
  /\ UNCHANGED <<version, args, rnd, pc, bugCount, outcome, selectedBugs, text, bugTypes, others, hook>>

FbFilterShuffle ==
  /\ pc = "fallback"
  /\ fb.phase = "SELECTING_RULES"
  /\ LET applicable == Filter(fb.availableMutations, fb.modifiedContent)
         k == drawn + ShuffleDraws(applicable)
     IN  /\ fb' = [fb EXCEPT !.phase = "APPLYING",
                             !.applicableMutations = shuffleArray(applicable, rnd, drawn),
                             !.bugCount = BugCount(fb.targetBugCount, fb.stressLevel, rnd, k),
                             !.next = 1]
         /\ drawn' = k + BugCountDraws(fb.targetBugCount)
  /\ UNCHANGED <<version, args, rnd, pc, bugCount, outcome, selectedBugs, text, bugTypes, others, hook>>

\* one iteration of the for-of loop: the mutation is applied when canApply
\* still holds on modifiedContent and apply changes it
FbApplyRetries ==
  /\ pc = "fallback"
  /\ fb.phase = "APPLYING"
  /\ fb.next <= Len(fb.applicableMutations)
  /\ ~LoopBreaks(fb.changes, fb.bugCount)
  /\ LET mutation == fb.applicableMutations[fb.next]
         newContent == apply(mutation, fb.modifiedContent)
     IN  IF canApply(mutation, fb.modifiedContent) /\ newContent # fb.modifiedContent
         THEN fb' = [fb EXCEPT !.next = fb.next + 1,
                               !.modifiedContent = newContent,
                               !.changes = Append(fb.changes, description(mutation)),
                               !.applied = Append(fb.applied, mutation)]
         ELSE fb' = fb
  /\ UNCHANGED <<version, args, rnd, drawn, pc, bugCount, outcome, selectedBugs, text, bugTypes, others, hook>>

\* the re-check of canApply is left out
FbApplyWithoutRecheck ==
  /\ pc = "fallback"
  /\ fb.phase = "APPLYING"
  /\ fb.next <= Len(fb.applicableMutations)
  /\ ~LoopBreaks(fb.changes, fb.bugCount)
  /\ LET mutation == fb.applicableMutations[fb.next]
         newContent == apply(mutation, fb.modifiedContent)
     IN  IF canApply(mutation, fb.modifiedContent) => newContent # fb.modifiedContent
         THEN fb' = [fb EXCEPT !.next = fb.next + 1,
                               !.modifiedContent = newContent,
                               !.changes = Append(fb.changes, description(mutation)),
                               !.applied = Append(fb.applied, mutation)]
         ELSE fb' = [fb EXCEPT !.next = fb.next + 1]
  /\ UNCHANGED <<version, args, rnd, drawn, pc, bugCount, outcome, selectedBugs, text, bugTypes, others, hook>>

\* a mutation that leaves the text as it is is counted all the same
FbApplyCountsNoOp ==
  /\ pc = "fallback"
  /\ fb.phase = "APPLYING"
  /\ fb.next <= Len(fb.applicableMutations)
  /\ ~LoopBreaks(fb.changes, fb.bugCount)
  /\ LET mutation == fb.applicableMutations[fb.next]
         newContent == apply(mutation, fb.modifiedContent)
     IN  IF canApply(mutation, fb.modifiedContent)
         THEN fb' = [fb EXCEPT !.next = fb.next + 1,
                               !.modifiedContent = newContent,
                               !.changes = Append(fb.changes, description(mutation)),
                               !.applied = Append(fb.applied, mutation)]
         ELSE fb' = [fb EXCEPT !.next = fb.next + 1]
  /\ UNCHANGED <<version, args, rnd, drawn, pc, bugCount, outcome, selectedBugs, text, bugTypes, others, hook>>

FbApply ==
  /\ pc = "fallback"
  /\ fb.phase = "APPLYING"
  /\ fb.next <= Len(fb.applicableMutations)
  /\ ~LoopBreaks(fb.changes, fb.bugCount)
  /\ LET mutation == fb.applicableMutations[fb.next]
         newContent == apply(mutation, fb.modifiedContent)
     IN  IF canApply(mutation, fb.modifiedContent) /\ newContent # fb.modifiedContent
         THEN fb' = [fb EXCEPT !.next = fb.next + 1,
                               !.modifiedContent = newContent,
                               !.changes = Append(fb.changes, description(mutation)),
                               !.applied = Append(fb.applied, mutation)]
         ELSE fb' = [fb EXCEPT !.next = fb.next + 1]
  /\ UNCHANGED <<version, args, rnd, drawn, pc, bugCount, outcome, selectedBugs, text, bugTypes, others, hook>>

\* the loop ends (break, or the list is exhausted); last resort; return
FbFinish ==
  /\ pc = "fallback"
  /\ fb.phase = "APPLYING"
  /\ fb.next > Len(fb.applicableMutations) \/ LoopBreaks(fb.changes, fb.bugCount)
  /\ fb' = [fb EXCEPT !.phase = "DONE", !.changes = LastResort(fb.changes)]
  /\ outcome' = Returned(fb.modifiedContent, LastResort(fb.changes),
                         generateFallbackSymptoms(LastResort(fb.changes), rnd, drawn))
  /\ drawn' = drawn + SymptomDraws
  /\ pc' = "returned"
  /\ UNCHANGED <<version, args, rnd, bugCount, selectedBugs, text, bugTypes, others, hook>>

Next ==
  \/ ImportOk
  \/ ImportFails
  \/ BuildPrompt
  \/ GenerateRejects
  \/ GenerateResolves
  \/ ResponseWithoutJson
  \/ ResponseBadJson
  \/ ResponseMissingFields
  \/ ResponseOk
  \/ FbChooseFamily
  \/ FbFilterShuffle
  \/ FbApply
  \/ FbFinish

Spec == Init /\ [][Next]_vars

\* ------------------------------------------------------------ concurrent requests
\* JavaScript runs one request at a time and switches only where a request
\* awaits: at await import(...) and at await generateText(...). What another
\* request does there to what the requests share, the Math.random() sequence
\* and the module-level BUG_TYPES, is one of its synchronous segments.
OtherRequests ==
  [content : {<<>>, Line.True, Line.MapName}, filename : Filenames,
   stressLevel : StressLevels, targetBugCount : Targets]

\* the Math.random() calls segment seg of the request o makes
SegmentDraws(v, o, seg) ==
  CASE seg = "prompt" ->
         IF v = "catalog"
         THEN BugCountDraws(o.targetBugCount) + SelectDraws(o.stressLevel, bugTypes)
         ELSE 1 + BugCountDraws(o.targetBugCount)
    [] seg = "fallbackStress" ->
         IF CatchFallsBack(v)
         THEN ShuffleDraws(Filter(AvailableMutations(o.filename), o.content))
                + BugCountDraws(o.targetBugCount) + SymptomDraws
         ELSE 0
    [] seg = "return" -> BackfillDraws(v)

\* what segment seg of the request o does to the shared state: the number of
\* Math.random() calls so far, and BUG_TYPES
SegmentEffect(v, o, seg) ==
  [drawn |-> drawn + SegmentDraws(v, o, seg),
   bugTypes |-> IF seg = "prompt" /\ v = "catalog"
                THEN CatalogAfterSelect(bugTypes, o.stressLevel, rnd,
                                        drawn + BugCountDraws(o.targetBugCount))
                ELSE bugTypes]

\* while this request awaits, another request runs one of its segments
OtherRequestRuns ==
  /\ pc \in {"import", "generate"}
  /\ others < MaxOthers
  /\ \E e \in {SegmentEffect(version, o, seg) : o \in OtherRequests, seg \in {"prompt", "fallbackStress", "return"}} :
       /\ drawn' = e.drawn
       /\ bugTypes' = e.bugTypes
  /\ others' = others + 1
  /\ UNCHANGED <<version, args, rnd, pc, bugCount, fb, outcome, selectedBugs, text, hook>>

ConcInit ==
  /\ Init
  /\ args.content \in FewTexts
  /\ args.context = UNDEF

ConcNext == Next \/ OtherRequestRuns

ConcSpec == ConcInit /\ [][ConcNext]_vars

\* requests of the version that falls back, on four texts: the empty one, one
\* no mutation changes, one that two mutations change, one with a JS pattern
FallbackInit ==
  /\ Init
  /\ version = "fallback"
  /\ args.content \in FewTexts
  /\ args.context = UNDEF

\* fallbackStress is synchronous: once called it runs to its return
FairSpec ==
  /\ FallbackInit /\ [][Next]_vars
  /\ WF_vars(FbChooseFamily) /\ WF_vars(FbFilterShuffle)
  /\ WF_vars(FbApply) /\ WF_vars(FbFinish)

\* ------------------------------------------------------------ requests that select from the catalog
\* requests of the catalog-driven version with every explicit count up to
\* MaxSelectCount, on one text
SelectInit ==
  /\ version = "catalog"
  /\ args \in [content : {Line.MapName}, filename : {<<"app", "ts">>}, context : {UNDEF},
               stressLevel : StressLevels,
               targetBugCount : {NONE} \cup {Given(n) : n \in (-1)..MaxSelectCount}]
  /\ rnd \in RandStreams
  /\ drawn = 0
  /\ pc = "import"
  /\ bugCount = 0
  /\ fb = NoFrame
  /\ outcome = NoOutcome
  /\ selectedBugs = <<>>
  /\ text = <<>>
  /\ bugTypes = BUG_TYPES
  /\ others = 0
  /\ hook = HookStart

\* the steps of the versions without fallbackStress
SelectNext ==
  \/ ImportOk
  \/ ImportFails
  \/ BuildPrompt
  \/ GenerateRejects
  \/ GenerateResolves
  \/ ResponseWithoutJson
  \/ ResponseBadJson
  \/ ResponseMissingFields
  \/ ResponseOk

SelectSpec == SelectInit /\ [][SelectNext]_vars

\* ------------------------------------------------------------ the dashboard
\* The hook's handlers run when the user clicks, the callbacks of its fetches
\* when the server answers, in any order: no fetch is ever cancelled.
MaxClicks == 4

\* a handler (count 1) or a callback (count 0) turns the hook's state into next
Handled(name, count, next) ==
  /\ hook.clicks + count <= MaxClicks
  /\ hook' = Render(hook, [next EXCEPT !.last = name, !.clicks = hook.clicks + count])
  /\ UNCHANGED <<version, args, rnd, drawn, pc, bugCount, fb, outcome, selectedBugs, text,
                 bugTypes, others>>

handleRepoSelect ==
  \E repo \in {"acme/app", "acme/site"} :
    Handled("handleRepoSelect", 1,
            [hook EXCEPT !.url = [repo |-> repo, branch |-> NULL, commit |-> NULL]])

handleBranchSelect ==
  \E branch \in Range(hook.branches) :
    Handled("handleBranchSelect", 1,
            IF hook.url.repo = NULL
            THEN hook
            ELSE [hook EXCEPT !.url = [repo |-> hook.url.repo, branch |-> branch,
                                       commit |-> NULL]])

handleCommitSelect ==
  \E commit \in Range(hook.commits) :
    Handled("handleCommitSelect", 1,
            IF hook.url.repo = NULL \/ hook.url.branch = NULL
            THEN hook
            ELSE [hook EXCEPT !.url.commit = commit])

handleDeleteBranch ==
  Handled("handleDeleteBranch", 1,
          IF hook.url.repo = NULL \/ hook.url.branch = NULL
          THEN hook
          ELSE IF IsProtected(hook.url.branch)
          THEN [hook EXCEPT !.error = "Cannot delete protected branches"]
          ELSE [hook EXCEPT !.deletingBranch = TRUE, !.error = NULL,
                            !.inflight = @ \cup {Request("delete", hook, NULL)},
                            !.deleteRequests = @ \cup {<<hook.url.repo, hook.url.branch>>}])

handleClearSelection ==
  Handled("handleClearSelection", 1,
          [hook EXCEPT !.commitDetails = NULL, !.branches = <<>>, !.tb = TRUE,
                       !.commits = <<>>, !.tc = TRUE, !.lastFetchedRepo = NULL,
                       !.lastFetchedBranch = NULL, !.lastFetchedCommit = NULL,
                       !.url = [repo |-> NULL, branch |-> NULL, commit |-> NULL]])

\* the callbacks of the branches fetch: then or catch, and finally
BranchesResponse ==
  \E req \in hook.inflight, ok \in BOOLEAN :
    /\ req.kind = "branches"
    /\ Handled("BranchesResponse", 0,
               [hook EXCEPT !.inflight = @ \ {req},
                            !.branches = IF ok THEN BranchesOf(req.repo, hook.deleted)
                                         ELSE <<>>,
                            !.tb = TRUE,
                            !.error = IF ok THEN @ ELSE "Failed to fetch branches",
                            !.loadingBranches = FALSE])

\* the callbacks of the commits fetch; urlCommit is the one of the render that
\* started the fetch
CommitsResponse ==
  \E req \in hook.inflight, ok \in BOOLEAN :
    /\ req.kind = "commits"
    /\ ok => <<req.repo, req.branch>> \notin hook.deleted
    /\ Handled("CommitsResponse", 0,
               [hook EXCEPT !.inflight = @ \ {req},
                            !.commits = IF ok THEN CommitsOf(req.repo, req.branch) ELSE <<>>,
                            !.tc = TRUE,
                            !.url.commit = IF ok /\ req.urlCommit = NULL
                                           THEN CommitsOf(req.repo, req.branch)[1]
                                           ELSE @,
                            !.error = IF ok THEN @ ELSE "Failed to fetch commits",
                            !.loadingCommits = FALSE])

\* the callbacks of the commit details fetch
DetailsResponse ==
  \E req \in hook.inflight, ok \in BOOLEAN :
    /\ req.kind = "details"
    /\ Handled("DetailsResponse", 0,
               [hook EXCEPT !.inflight = @ \ {req},
                            !.commitDetails = IF ok THEN req.sha ELSE NULL,
                            !.error = IF ok THEN @ ELSE "Failed to fetch commit details",
                            !.loadingDetails = FALSE])

\* handleDeleteBranch resumes after its DELETE: it fetches the branches again,
\* or it throws
DeleteResponse ==
  \E req \in hook.inflight, ok \in BOOLEAN :
    /\ req.kind = "delete"
    /\ Handled("DeleteResponse", 0,
               IF ok
               THEN [hook EXCEPT !.inflight = (@ \ {req}) \cup {[req EXCEPT !.kind = "refresh"]},
                                 !.deleted = @ \cup {<<req.repo, req.branch>>}]
               ELSE [hook EXCEPT !.inflight = @ \ {req},
                                 !.error = "Failed to delete branch",
                                 !.deletingBranch = FALSE])

\* handleDeleteBranch resumes after its second fetch and clears the selection
RefreshResponse ==
  \E req \in hook.inflight, ok \in BOOLEAN :
    /\ req.kind = "refresh"
    /\ Handled("RefreshResponse", 0,
               [hook EXCEPT !.inflight = @ \ {req},
                            !.branches = IF ok THEN BranchesOf(req.repo, hook.deleted)
                                         ELSE @,
                            !.tb = ok,
                            !.url.branch = NULL, !.url.commit = NULL,
                            !.lastFetchedBranch = NULL, !.lastFetchedCommit = NULL,
                            !.commitDetails = NULL, !.commits = <<>>, !.tc = TRUE,
                            !.deletingBranch = FALSE])

\* a dashboard with nothing selected, beside a request that has not started
HookInit ==
  /\ version = "fallback"
  /\ args = [content |-> <<>>, filename |-> <<"app", "ts">>, context |-> UNDEF,
             stressLevel |-> "low", targetBugCount |-> NONE]
  /\ rnd = [seed |-> 0, step |-> 1]
  /\ drawn = 0
  /\ pc = "import"
  /\ bugCount = 0
  /\ fb = NoFrame
  /\ outcome = NoOutcome
  /\ selectedBugs = <<>>
  /\ text = <<>>
  /\ bugTypes = BUG_TYPES
  /\ others = 0
  /\ hook = HookStart

HookNext ==
  \/ handleRepoSelect
  \/ handleBranchSelect
  \/ handleCommitSelect
  \/ handleDeleteBranch
  \/ handleClearSelection
  \/ BranchesResponse
  \/ CommitsResponse
  \/ DetailsResponse
  \/ DeleteResponse
  \/ RefreshResponse

HookSpec == HookInit /\ [][HookNext]_vars

\* ------------------------------------------------------------ properties
\* the request ended in a result that fallbackStress produced
EngineReturned == pc = "returned" /\ fb.phase = "DONE"

ResultOf(o) == [content |-> o.content, changes |-> o.changes, symptoms |-> o.symptoms]

\* a valid InjectionResult: a text, at least one change, at least one symptom
ValidResult(o) == o.kind = "result" /\ Len(o.changes) >= 1 /\ Len(o.symptoms) >= 1

\* no mutation of the chosen family changes the text c
NoneEffective(filename, c) ==
  \A i \in 1..Len(AvailableMutations(filename)) :
    LET m == AvailableMutations(filename)[i]
    IN  ~canApply(m, c) \/ apply(m, c) = c

\* README.md: Low (1-2 bugs), Medium (2-3 bugs), High (3-5 bugs)
ReadmeBugCounts == [low |-> 1..2, medium |-> 2..3, high |-> 3..5]

ConfigBugCounts(level) ==
  STRESS_CONFIGS[level].bugCountMin..STRESS_CONFIGS[level].bugCountMax

\* C1: when the generative path fails, the entry point returns exactly what
\* fallbackStress returns for the request's content, filename, stress level
\* and explicit bug count, with the same random draws.
C1_FallbackEqualsEngineOnRequest ==
  EngineReturned =>
    ResultOf(outcome) = fallbackStress(args.content, args.filename, args.stressLevel,
                                       args.targetBugCount, rnd, fb.entry)

\* C2 as stated: no failure of the generative path reaches the caller as an
\* AIStressError; the caller always receives a result.
C2_NoErrorReachesCaller == outcome.kind # "error"

\* C2 amended: the version that falls back never raises: each failure of the
\* generative path ends in a valid result made by fallbackStress; the throwing
\* version raises AIStressError, and nothing else, on each such failure, and
\* never runs the engine.
C2_FallbackVersionNeverRaises ==
  /\ version = "fallback" =>
       /\ outcome.kind # "error"
       /\ pc # "thrown"
       /\ EngineReturned => ValidResult(outcome)
  /\ version \in {"throwing", "catalog"} =>
       /\ fb.phase = "IDLE"
       /\ pc = "thrown" => outcome.kind = "error" /\ outcome.error = "AIStressError"

C2_Witness == version = "fallback" /\ EngineReturned /\ ValidResult(outcome)

\* C3: one fallbackStress call goes INIT -> SELECTING_RULES -> APPLYING -> DONE,
\* has no other state, always reaches DONE, and DONE carries a valid result.
C3_EngineReachesDone ==
  /\ [](fb.phase \in {"IDLE", "INIT", "SELECTING_RULES", "APPLYING", "DONE"})
  /\ [][fb.phase' # fb.phase =>
          <<fb.phase, fb.phase'>> \in { <<"IDLE", "INIT">>, <<"INIT", "SELECTING_RULES">>,
                                       <<"SELECTING_RULES", "APPLYING">>,
                                       <<"APPLYING", "DONE">> }]_vars
  /\ [](fb.phase = "DONE" => ValidResult(outcome))
  /\ (fb.phase = "INIT") ~> (fb.phase = "DONE")

C3_Witness == fb.phase = "DONE" /\ fb.content = <<>> /\ ValidResult(outcome)

\* C4 as stated: changeDescriptions has at most effective-bug-count entries.
C4_ChangesAtMostBugCount == EngineReturned => Len(outcome.changes) <= fb.bugCount

\* C4 amended: changeDescriptions has at most max(effective bug count, 1)
\* entries, and when it has more entries than the count it is the single
\* diagnostic entry.
C4_ChangesAtMostBugCountOrDiagnostic ==
  EngineReturned =>
    /\ Len(outcome.changes) <= (IF fb.bugCount > 1 THEN fb.bugCount ELSE 1)
    /\ Len(outcome.changes) > fb.bugCount => outcome.changes = <<NoChangeEntry>>

C4_Witness ==
  EngineReturned /\ fb.bugCount >= 2 /\ Len(outcome.changes) = fb.bugCount
                 /\ Len(fb.applicableMutations) > fb.bugCount

\* C5: no mutation is applied twice in one fallbackStress call.
C5_NoMutationTwice == NoDuplicates(fb.applied) /\ NoDuplicates(fb.changes)

\* a mutation was applied, would still change the text, and the count is not reached
C5_Witness ==
  /\ EngineReturned
  /\ Len(fb.applied) < fb.bugCount
  /\ \E i \in 1..Len(fb.applied) :
       /\ canApply(fb.applied[i], fb.modifiedContent)
       /\ apply(fb.applied[i], fb.modifiedContent) # fb.modifiedContent

\* C6: when no mutation of the family is applicable to the source or none
\* changes it, the text is returned unchanged with the diagnostic entry alone;
\* the diagnostic entry never stands beside a mutation's description.
C6_NoOpResult ==
  EngineReturned =>
    /\ NoneEffective(fb.filename, fb.content) =>
         outcome.content = fb.content /\ outcome.changes = <<NoChangeEntry>>
    /\ NoChangeEntry \in Range(outcome.changes) =>
         outcome.changes = <<NoChangeEntry>> /\ fb.applied = <<>>

\* some mutation is applicable, yet none changes the text
C6_Witness ==
  /\ EngineReturned
  /\ fb.bugCount >= 1
  /\ Len(fb.applicableMutations) >= 1
  /\ NoneEffective(fb.filename, fb.content)
  /\ outcome.changes = <<NoChangeEntry>>

\* C7: every result of fallbackStress has at least one change description.
C7_ChangesNonEmpty == EngineReturned => Len(outcome.changes) >= 1

C7_Witness ==
  EngineReturned /\ outcome.content # fb.content /\ Len(outcome.changes) >= 1

\* C8: every result of fallbackStress has at least one symptom.
C8_SymptomsNonEmpty ==
  EngineReturned =>
    /\ Len(outcome.symptoms) >= 1
    /\ Range(outcome.symptoms) \subseteq Range(symptomTemplates)

\* the explicit count is 0 and nothing was changed
C8_Witness ==
  /\ EngineReturned
  /\ fb.targetBugCount = Given(0)
  /\ outcome.content = fb.content
  /\ Len(outcome.symptoms) >= 1

\* C9: without an explicit count the effective bug count is in 1..2 (low),
\* 2..3 (medium), 3..5 (high), both in introduceAIStress and in fallbackStress.
C9_BugCountInReadmeRange ==
  /\ pc = "generate" /\ args.targetBugCount = NONE =>
       bugCount \in ReadmeBugCounts[args.stressLevel]
  /\ fb.phase \in {"APPLYING", "DONE"} /\ fb.targetBugCount = NONE =>
       fb.bugCount \in ReadmeBugCounts[fb.stressLevel]

\* C10: introduceAIStress and fallbackStress resolve the bug count alike: the
\* explicit count when one is passed, else an integer in the level's
\* [bugCountMin, bugCountMax].
C10_BugCountResolution ==
  /\ pc = "generate" =>
       IF args.targetBugCount # NONE THEN bugCount = args.targetBugCount[1]
       ELSE bugCount \in ConfigBugCounts(args.stressLevel)
  /\ fb.phase \in {"APPLYING", "DONE"} =>
       IF fb.targetBugCount # NONE THEN fb.bugCount = fb.targetBugCount[1]
       ELSE fb.bugCount \in ConfigBugCounts(fb.stressLevel)

\* both counts were drawn in one request, and the two draws differ
C10_Witness ==
  /\ fb.phase = "APPLYING"
  /\ args.targetBugCount = NONE
  /\ fb.targetBugCount = NONE
  /\ bugCount \in ConfigBugCounts(args.stressLevel)
  /\ fb.bugCount # bugCount

\* C11: a request with a negative explicit bug count is rejected with an error:
\* fallbackStress is never entered for it, no mutation is applied and no
\* result is returned.
C11_NegativeCountRejected ==
  (args.targetBugCount # NONE /\ args.targetBugCount[1] < 0) =>
    /\ outcome.kind # "result"
    /\ fb.phase = "IDLE"

\* C12: in the versions that raise, every failing exit of introduceAIStress
\* raises an AIStressError and no other class of error: a failed import and a
\* rejected generate call are wrapped (cause: the Error), a SyntaxError of
\* JSON.parse is wrapped, and the AIStressError thrown for a missing JSON
\* object or missing fields is re-raised as it is, never wrapped again.
C12_OnlyAIStressErrorRaised ==
  /\ [](pc = "thrown" =>
         /\ outcome.kind = "error"
         /\ outcome.error = "AIStressError"
         /\ outcome.cause # "AIStressError")
  /\ [][version # "fallback" =>
          /\ (pc = "import" /\ pc' # "prompt") =>
               outcome' = Thrown("AIStressError", "AI SDK not available", "Error")
          /\ (pc = "generate" /\ pc' # "parse") =>
               outcome' = Thrown("AIStressError", "AI stress generation failed", "Error")
          /\ (pc = "parse" /\ jsonMatch(text) = <<>>) =>
               outcome' = Thrown("AIStressError", "Failed to parse AI response", "")
          /\ (pc = "parse" /\ jsonMatch(text) # <<>> /\ ~ParsesAsJson(jsonMatch(text))) =>
               outcome' = Thrown("AIStressError", "AI stress generation failed", "SyntaxError")
          /\ (pc = "parse" /\ jsonMatch(text) # <<>> /\ ParsesAsJson(jsonMatch(text))
                           /\ MissingFields(jsonMatch(text))) =>
               outcome' = Thrown("AIStressError", "Invalid AI response structure", "")]_vars

\* an AIStressError thrown inside the try block reached the caller unwrapped
C12_Witness ==
  /\ pc = "thrown"
  /\ outcome.error = "AIStressError"
  /\ outcome.message = "Invalid AI response structure"
  /\ outcome.cause = ""

\* introduceAIStress returned the parsed response, which had no symptoms field
ReturnedWithoutSymptoms ==
  /\ pc = "returned"
  /\ text # <<>>
  /\ ~("sy" \in Range(jsonMatch(text)))

Synthesized ==
  \/ EngineReturned
  \/ ReturnedWithoutSymptoms /\ version # "catalog"

\* C14: for n change descriptions generateFallbackSymptoms returns exactly
\* min(n, 3) sentences, pairwise distinct, each one of the bank; the result is
\* empty only when n = 0.
C14_SynthesizerOutput ==
  Synthesized =>
    /\ Len(outcome.symptoms) = MinOf(Len(outcome.changes), 3)
    /\ NoDuplicates(outcome.symptoms)
    /\ Range(outcome.symptoms) \subseteq Range(symptomTemplates)
    /\ outcome.symptoms = <<>> <=> outcome.changes = <<>>

\* four changes gave three distinct bank sentences
C14_Witness ==
  /\ Synthesized
  /\ Len(outcome.changes) = 4
  /\ Len(outcome.symptoms) = 3
  /\ NoDuplicates(outcome.symptoms)

\* the randomness source as one call of fallbackStress sees it: its first
\* Math.random() call returns what the k-th call of the request returns
StreamFrom(k) == [seed |-> Random(rnd, k), step |-> rnd.step]

\* C15: the result of fallbackStress is a function of its content, filename,
\* stress level, explicit count and of the values its own Math.random() calls
\* return: two calls that agree on these return the same content, the same
\* changes in the same order and the same symptoms, whatever the request did
\* before the call.
C15_EngineDeterministic ==
  EngineReturned =>
    /\ ResultOf(outcome) = fallbackStress(fb.content, fb.filename, fb.stressLevel,
                                          fb.targetBugCount, StreamFrom(fb.entry), 0)
    /\ drawn - fb.entry =
         ShuffleDraws(Filter(AvailableMutations(fb.filename), fb.content))
           + BugCountDraws(fb.targetBugCount) + SymptomDraws

\* a call that was entered after the request had drawn random values, drew
\* its own bug count and changed the text twice
C15_Witness ==
  /\ EngineReturned
  /\ fb.entry > 0
  /\ fb.targetBugCount = NONE
  /\ Len(outcome.changes) = 2
  /\ outcome.content # fb.content

\* C16: requests that run concurrently share no mutable state. Whatever
\* segments of other requests run while a request awaits the import or
\* generateText, BUG_TYPES stays as it was defined, and everything the request
\* computes is what it computes alone from its arguments and from the values
\* its own Math.random() calls return: its bug count and selected archetypes,
\* the result of its fallbackStress call, and its backfilled symptoms. (The
\* rule tables and the symptom bank are built anew inside every call.)
C16_RequestsIndependent ==
  /\ [](bugTypes = BUG_TYPES)
  /\ [](EngineReturned =>
          /\ fb.targetBugCount \in {NONE, args.targetBugCount}
          /\ ResultOf(outcome) =
               fallbackStress(args.content, args.filename, args.stressLevel,
                              fb.targetBugCount, StreamFrom(fb.entry), 0))
  /\ [](ReturnedWithoutSymptoms =>
          outcome.symptoms =
            IF version = "catalog" THEN sampleSymptoms(selectedBugs)
            ELSE generateFallbackSymptoms(outcome.changes,
                                          StreamFrom(drawn - SymptomDraws), 0))
  /\ [][pc = "prompt" =>
          IF version = "catalog"
          THEN /\ bugCount' = BugCount(args.targetBugCount, args.stressLevel,
                                       StreamFrom(drawn), 0)
               /\ selectedBugs' =
                    selectRandomBugTypes(bugCount', args.stressLevel, BUG_TYPES,
                                         StreamFrom(drawn),
                                         BugCountDraws(args.targetBugCount))
          ELSE /\ bugCount' = BugCount(args.targetBugCount, args.stressLevel,
                                       StreamFrom(drawn), 1)
               /\ selectedBugs' = <<>>]_vars

\* another request ran while the request was suspended, before its
\* fallbackStress call, which then changed the text
C16_Witness ==
  /\ others >= 1
  /\ EngineReturned
  /\ fb.entry > 2
  /\ outcome.content # fb.content

\* selectRandomBugTypes(bugCount, args.stressLevel) has just returned selectedBugs
Selected == version = "catalog" /\ pc = "generate"

\* the tier-filtered catalog and its categories
Filtered == applicableBugs(BUG_TYPES, args.stressLevel)

Categories(bugs) == {bugs[i].category : i \in 1..Len(bugs)}

\* orders the Fisher-Yates loop can leave the array in, besides those of the
\* modelled random values: every rotation of the array and its reverse
Orders(bugs) ==
  LET n == Len(bugs)
      Rotated(r) == [i \in 1..n |-> bugs[((i + r - 1) % n) + 1]]
  IN  {Rotated(r) : r \in 0..(n - 1)}
        \cup {[i \in 1..n |-> Rotated(r)[n + 1 - i]] : r \in 0..(n - 1)}

\* the two passes of selectRandomBugTypes on the shuffled array
SelectFrom(shuffled, count) ==
  SecondPass(shuffled, 1, count, FirstPass(shuffled, 1, count, <<>>))

OnePerCategory(selected, count) ==
  /\ Len(selected) = count
  /\ \A i, j \in 1..Len(selected) : i # j => selected[i].category # selected[j].category

\* C17: when the count is not larger than the number of distinct categories
\* of the tier-filtered catalog, selectRandomBugTypes returns exactly count
\* archetypes, no two of the same category, whatever the shuffle gave: for
\* the order the request's random values gave, and for every rotation of the
\* filtered catalog and its reverse.
C17_OnePerCategory ==
  (Selected /\ bugCount >= 0 /\ bugCount <= Cardinality(Categories(Filtered))) =>
    /\ OnePerCategory(selectedBugs, bugCount)
    /\ \A shuffled \in Orders(Filtered) :
         OnePerCategory(SelectFrom(shuffled, bugCount), bugCount)

\* as many archetypes as the filtered catalog has categories, one of each
C17_Witness ==
  /\ Selected
  /\ bugCount = Cardinality(Categories(Filtered))
  /\ bugCount >= 2
  /\ Len(selectedBugs) = bugCount
  /\ Categories(selectedBugs) = Categories(Filtered)

\* C18: for every count and tier selectRandomBugTypes returns exactly
\* min(count, size of the tier-filtered catalog) archetypes of that catalog,
\* pairwise distinct: none for count 0 (and for a negative count), the whole
\* filtered catalog for a count above its size.
C18_SelectsMinCountSize ==
  Selected =>
    /\ Len(selectedBugs) = MinOf(IF bugCount < 0 THEN 0 ELSE bugCount, Len(Filtered))
    /\ NoDuplicates(selectedBugs)
    /\ Range(selectedBugs) \subseteq Range(Filtered)
    /\ bugCount = 0 => selectedBugs = <<>>
    /\ bugCount > Len(Filtered) => Range(selectedBugs) = Range(Filtered)

\* a count above the size of the filtered catalog gave all of it
C18_Witness ==
  /\ Selected
  /\ bugCount > Len(Filtered)
  /\ Len(selectedBugs) = Len(Filtered)
  /\ Len(selectedBugs) > Cardinality(Categories(Filtered))

\* C19: every archetype selectRandomBugTypes returns has a priority allowed
\* for the stress level: "high" only for low, "high" or "medium" for medium,
\* any of the three for high; the three allowed sets are nested.
C19_PriorityAllowedForTier ==
  /\ Selected =>
       \A i \in 1..Len(selectedBugs) :
         selectedBugs[i].priority \in
           CASE args.stressLevel = "low" -> {"high"}
             [] args.stressLevel = "medium" -> {"high", "medium"}
             [] args.stressLevel = "high" -> {"high", "medium", "low"}
  /\ priorityFilter("low") \subseteq priorityFilter("medium")
  /\ priorityFilter("medium") \subseteq priorityFilter("high")

\* low stress asked for more archetypes than there are of high priority, and
\* got the high-priority ones only
C19_Witness ==
  /\ Selected
  /\ args.stressLevel = "low"
  /\ bugCount > Len(selectedBugs)
  /\ Len(selectedBugs) >= 2
  /\ \A i \in 1..Len(selectedBugs) : selectedBugs[i].priority = "high"
  /\ \E i \in 1..Len(BUG_TYPES) : BUG_TYPES[i].priority = "medium"

\* the extension of a file name: what follows its last ".", lower-cased; a
\* name without a "." has none
Extension(filename) ==
  IF Len(filename) >= 2 THEN Given(toLowerCase(filename[Len(filename)])) ELSE NONE

\* C20: the rule family depends on the extension of the file name alone: with
\* the extension ts, tsx, js or jsx, in any case, the candidate and the applied
\* mutations of a fallbackStress call are all of jsMutations; with any other
\* extension, or none, they are all of genericMutations; one call never applies
\* mutations of both.
C20_FamilyByExtension ==
  fb.phase \in {"SELECTING_RULES", "APPLYING", "DONE"} =>
    LET family == IF Extension(fb.filename) \in {Given(e) : e \in {"ts", "tsx", "js", "jsx"}}
                  THEN jsMutations ELSE genericMutations
    IN  /\ fb.availableMutations = family
        /\ Range(fb.applicableMutations) \subseteq Range(family)
        /\ Range(fb.applied) \subseteq Range(family)
        /\ ~(/\ Range(fb.applied) \cap Range(jsMutations) # {}
             /\ Range(fb.applied) \cap Range(genericMutations) # {})

\* C21: applicability is evaluated against the current text, not only once
\* against the original: while the loop of fallbackStress runs and the count
\* is not reached, every mutation of the family whose canApply holds on the
\* current text and that was not yet applied is in the list the loop goes through.
C21_EnabledRulesEligible ==
  (fb.phase = "APPLYING" /\ ~LoopBreaks(fb.changes, fb.bugCount)) =>
    \A i \in 1..Len(fb.availableMutations) :
      LET m == fb.availableMutations[i]
      IN  (canApply(m, fb.modifiedContent) /\ m \notin Range(fb.applied))
            => m \in Range(fb.applicableMutations)

\* one iteration of the for-of loop of fallbackStress is being taken
LoopStep == fb.phase = "APPLYING" /\ fb'.phase = "APPLYING" /\ fb' # fb

\* C22: before each mutation of the shuffled list is applied, its canApply is
\* evaluated again on the current text: a mutation is applied only when it
\* holds there, and one whose canApply no longer holds is skipped, adding no
\* description and leaving the text as it is.
C22_StaleRuleSkipped ==
  [][LoopStep =>
       LET mutation == fb.applicableMutations[fb.next]
       IN  /\ fb'.next = fb.next + 1
           /\ fb'.changes # fb.changes => canApply(mutation, fb.modifiedContent)
           /\ ~canApply(mutation, fb.modifiedContent) =>
                /\ fb'.modifiedContent = fb.modifiedContent
                /\ fb'.changes = fb.changes
                /\ fb'.applied = fb.applied]_vars

\* mapToForEach rewrote the only .map( call, and hideLastItems, which came
\* after it in the list, was skipped
C22_Witness ==
  /\ fb.phase \in {"APPLYING", "DONE"}
  /\ fb.applied = <<"mapToForEach">>
  /\ ~canApply("hideLastItems", fb.modifiedContent)
  /\ \E i, j \in 1..Len(fb.applicableMutations) :
       /\ i < j /\ j < fb.next
       /\ fb.applicableMutations[i] = "mapToForEach"
       /\ fb.applicableMutations[j] = "hideLastItems"

\* C23: a mutation whose canApply holds but whose apply returns the text as
\* it is is a no-op: no description is added, nothing is counted, the text
\* stays, and the loop goes on with the next mutation; a description is added
\* only together with a change of the text.
C23_NoOpNotCounted ==
  [][LoopStep =>
       LET mutation == fb.applicableMutations[fb.next]
       IN  /\ (/\ canApply(mutation, fb.modifiedContent)
               /\ apply(mutation, fb.modifiedContent) = fb.modifiedContent) =>
                /\ fb'.changes = fb.changes
                /\ fb'.applied = fb.applied
                /\ fb'.modifiedContent = fb.modifiedContent
                /\ fb'.next = fb.next + 1
                /\ fb'.bugCount = fb.bugCount
           /\ fb'.changes # fb.changes =>
                /\ fb'.modifiedContent # fb.modifiedContent
                /\ fb'.changes = Append(fb.changes, description(mutation))]_vars

\* setPropertyToNull was tried on an object literal without a name, title,
\* value or data key and passed over; the loop went on and applied a later one
C23_Witness ==
  /\ fb.phase \in {"APPLYING", "DONE"}
  /\ Len(fb.applied) = 1
  /\ canApply("setPropertyToNull", fb.content)
  /\ apply("setPropertyToNull", fb.content) = fb.content
  /\ \E i, j \in 1..Len(fb.applicableMutations) :
       /\ i < j /\ j < fb.next
       /\ fb.applicableMutations[i] = "setPropertyToNull"
       /\ fb.applicableMutations[j] = fb.applied[1]

\* the descriptions of the mutations that pass the re-check and change the
\* text when the whole shuffled list is gone through, in that order
Effective(shuffled, content) ==
  ApplyLoop(shuffled, 1, Len(shuffled) + 1, content, <<>>).changes

\* C24: for a bug count of at least 1, fallbackStress accepts exactly
\* min(bug count, number of mutations of the shuffled list that pass the
\* re-check and change the text): it stops as soon as the count is reached,
\* and when the list ends first it returns what it accepted as a result, the
\* descriptions in the order of application.
C24_AcceptsMinCountEffective ==
  (EngineReturned /\ fb.bugCount >= 1) =>
    LET effective == Effective(fb.applicableMutations, fb.content)
        accepted == [i \in 1..Len(fb.applied) |-> description(fb.applied[i])]
    IN  /\ Len(fb.applied) = MinOf(fb.bugCount, Len(effective))
        /\ accepted = SubSeq(effective, 1, Len(fb.applied))
        /\ outcome.kind = "result"
        /\ outcome.changes = LastResort(accepted)

\* the list ended before the count was reached
C24_Witness ==
  /\ EngineReturned
  /\ Len(fb.applied) >= 1
  /\ Len(fb.applied) < fb.bugCount
  /\ outcome.changes = [i \in 1..Len(fb.applied) |-> description(fb.applied[i])]

\* C25: whenever fallbackStress accepted at least one mutation (its changes
\* are descriptions, not the single diagnostic entry), the content it returns
\* differs from the content it was given: a later accepted mutation never
\* restores the original text.
C25_ChangedWhenDescribed ==
  (EngineReturned /\ fb.applied # <<>>) =>
    /\ outcome.changes # <<NoChangeEntry>>
    /\ outcome.content # fb.content

\* the first top-level brace-delimited object of t: from its first "{" to the
\* "}" that closes it (members hold no braces)
FirstObject(t) ==
  LET opens == {i \in 1..Len(t) : t[i] = "{"}
  IN  IF opens = {} THEN <<>>
      ELSE LET closes == {i \in 1..Len(t) : t[i] = "}" /\ i > Min(opens)}
           IN  IF closes = {} THEN <<>> ELSE SubSeq(t, Min(opens), Min(closes))

\* C26: introduceAIStress parses the first top-level brace-delimited object
\* of the text: when that object is well formed and has modifiedCode and
\* changes, the request returns its content and changes, whatever follows the
\* object in the text, further braces included.
C26_FirstObjectParsed ==
  [][(/\ pc = "parse"
      /\ ParsesAsJson(FirstObject(text))
      /\ ~MissingFields(FirstObject(text))) =>
       /\ pc' = "returned"
       /\ outcome'.kind = "result"
       /\ outcome'.content = AiCode
       /\ outcome'.changes = Changes(FirstObject(text))]_vars

\* C27: one request calls generateText at most once. The call is made where
\* the prompt is ready, the request gets there only from the import, never
\* gets there again, and after the call has rejected or resolved the request
\* only goes on to its end: the error, or fallbackStress and its result.
C27_GenerateCalledOnce ==
  [][/\ pc' = "generate" => pc \in {"prompt", "generate"}
     /\ pc' = "prompt" => pc \in {"import", "prompt"}
     /\ pc' = "import" => pc = "import"
     /\ (pc = "generate" /\ pc' # "generate") =>
          \/ pc' = "parse"
          \/ pc' = "thrown" /\ ~CatchFallsBack(version)
          \/ pc' = "fallback" /\ CatchFallsBack(version)
     /\ (pc \in {"parse", "fallback", "thrown", "returned"}) =>
          pc' \in {"fallback", "thrown", "returned"}]_vars

\* the call rejected and the request ended with the error
C27_Witness ==
  /\ pc = "thrown"
  /\ outcome.message = "AI stress generation failed"
  /\ outcome.cause = "Error"
  /\ drawn > 0

\* C28: the result of fallbackStress does not depend on the context: the
\* context of the request is handed to the call, and with or without one the
\* call returns what a call without context returns for the same content,
\* filename, stress level and count and the same random values, after the same
\* number of Math.random() calls.
C28_ContextIgnored ==
  EngineReturned =>
    /\ fb.context = args.context
    /\ LET without == [fb EXCEPT !.context = UNDEF]
       IN  /\ ResultOf(outcome) =
                fallbackStress(without.content, without.filename, without.stressLevel,
                               without.targetBugCount, StreamFrom(without.entry), 0)
           /\ Len(fb.applied) =
                Len(ApplyLoop(shuffleArray(Filter(AvailableMutations(without.filename),
                                                  without.content),
                                           StreamFrom(without.entry), 0),
                              1, fb.bugCount, without.content, <<>>).changes)

\* a call with a context changed the text
C28_Witness ==
  /\ EngineReturned
  /\ fb.context # UNDEF
  /\ fb.applied # <<>>
  /\ outcome.content # fb.content

\* C29: once all fetches have settled, the branches listed are branches of the
\* selected repository, and the commits listed are commits of the selected
\* branch of that repository: a late response for a previous selection never
\* overwrites the current one.
C29_LateResponsesIgnored ==
  hook.inflight = {} /\ hook.url.repo # NULL =>
    /\ Range(hook.branches) \subseteq Range(BranchesOf(hook.url.repo, {}))
    /\ hook.url.branch # NULL =>
         Range(hook.commits) \subseteq Range(CommitsOf(hook.url.repo, hook.url.branch))

\* C30: handleDeleteBranch never issues a delete request for main, master,
\* develop or dev, in any letter case: called with such a branch selected it
\* sets the error 'Cannot delete protected branches' and leaves the branches,
\* the commits, the commit details, the URL selection and deletingBranch (and
\* all the rest of the hook's state) as they were.
C30_ProtectedNeverDeleted ==
  /\ [](\A d \in hook.deleteRequests :
          toLowerCase(d[2]) \notin {"main", "master", "develop", "dev"})
  /\ [][(/\ hook'.last = "handleDeleteBranch"
         /\ hook'.clicks = hook.clicks + 1
         /\ hook.url.repo # NULL
         /\ toLowerCase(hook.url.branch) \in {"main", "master", "develop", "dev"})
        => /\ hook'.error = "Cannot delete protected branches"
           /\ hook'.inflight = hook.inflight
           /\ hook' = [hook EXCEPT !.error = hook'.error, !.last = hook'.last,
                                   !.clicks = hook'.clicks]]_vars

\* the branch DEV of acme/site is selected, handleDeleteBranch was called and
\* refused
C30_Witness ==
  /\ hook.last = "handleDeleteBranch"
  /\ hook.url = [repo |-> "acme/site", branch |-> "DEV", commit |-> "sha.DEV"]
  /\ hook.error = "Cannot delete protected branches"
  /\ hook.branches = <<"DEV", "fix-site">>
  /\ hook.deleteRequests = {}

=============================================================================
